---------------------------- MODULE Spec2Model ----------------------------
(***************************************************************************)
(* Position exit-evaluation pipeline and trailing-stop state machine of    *)
(* the swing trader (createPosition, updatePosition, applyMutations,       *)
(* closePosition), driven by the tick protocol: on every tick the open     *)
(* position is evaluated at the current price; a close signal finalizes    *)
(* it with closePosition, otherwise the returned mutations are merged      *)
(* with applyMutations.                                                    *)
(* The pre-trade risk gate (checkRiskGate) is modelled as a function of    *)
(* the trade history, the balance and the clock.                           *)
(*                                                                         *)
(* Numbers are fixed-point integers, exact for the inputs drawn below:     *)
(*   prices       in 1/10000 of a price unit    (100.5   is 1005000)       *)
(*   percentages  in 1/10000 of a percent       (0.35 %  is 3500)          *)
(*   money        in 1/10000 of a dollar        ($25     is 250000)        *)
(*   time         in milliseconds, as Date.now() gives it                  *)
(* collateral, leverage and the dollar constants of the source keep their  *)
(* plain values and are scaled where they meet a scaled quantity.          *)
(***************************************************************************)
EXTENDS Integers, Sequences, FiniteSets, TLC

VARIABLES
    now,        \* Date.now(), ms
    pos,        \* the caller's persisted Position (NoPosition before the first one)
    last,       \* the last updatePosition call: its arguments and its result
    trades,     \* the trade history handed to the risk gate (recentTrades)
    gate,       \* the last checkRiskGate call: its balance argument and its result
    loop,       \* the scan loop of the trader: its timer, its suspended scans and
                \* its trailingStops map (NoLoop while the loop is not running)
    reader      \* the brief reader: its module-level variables and the last
                \* getOverrides call

vars == <<now, pos, last, trades, gate, loop, reader>>

-----------------------------------------------------------------------------
(* Units *)
PCT == 10 ^ 4       \* scaled units per 1 %
USD == 10 ^ 4       \* scaled units per $1
Undefined == -1     \* JavaScript undefined for an optional number

\* mutant: the larger of the two
Min_larger(a, b) == IF a >= b THEN a ELSE b

Min(a, b) == IF a <= b THEN a ELSE b
Max(a, b) == IF a >= b THEN a ELSE b
Coalesce(x, d) == IF x = Undefined THEN d ELSE x     \* x ?? d

-----------------------------------------------------------------------------
(* config.ts *)
futures_leverage == 10
fees_takerFeePercent == 300             \* 0.03 %
fees_makerFeePercent == 0               \* 0.00 %
fees_feeMode == "taker"
strategy_minProfitDollars == 8
strategy_maxProfitDollars == 200
strategy_targetProfitPercent == 12000   \* 1.2 %
strategy_initialStopPercent == 6500     \* 0.65 %
strategy_maxTradeSeconds == 3600
strategy_mrTargetPercent == 4000        \* 0.4 %
strategy_mrStopPercent == 2500          \* 0.25 %
mrStopFallback == 1800                  \* || 0.18
mrTargetFallback == 1200                \* || 0.12
risk_initialBalance == 2000
risk_maxDailyLossPercent == 10
risk_maxDailyLossDollars == 150
risk_maxConsecutiveLosses == 3
risk_pauseAfterLossesMinutes == 60
risk_maxTradesPerHour == 2

(* Hard limits of the position manager *)
ABSOLUTE_MAX_HOLD_SECONDS == 3600
ABSOLUTE_MAX_LOSS_DOLLARS == 25
TRAILING_ACTIVATION_PCT == 5000         \* 0.50 %
TRAILING_DISTANCE_PCT == 3000           \* 0.30 %
BREAKEVEN_ACTIVATION_PCT == 3500        \* 0.35 %
SWING_MIN_HOLD_SECONDS == 120
SWING_PROFIT_SCALE_SECONDS == 300
GENEROUS_PROFIT_SECONDS == 900

-----------------------------------------------------------------------------
(* Economics *)

\* positionSize in dollars; the result in money units. feeRate is a percentage,
\* charged on both sides.
calcFees(positionSize) ==
    LET feeRate == IF fees_feeMode = "taker" THEN fees_takerFeePercent
                                             ELSE fees_makerFeePercent
    IN  (positionSize * feeRate * 2) \div 100

\* pct in percentage units, dollars in money units.
calcGrossPnl(position, currentPrice) ==
    LET posSize == position.collateral * position.leverage
        diff    == IF position.side = "Long" THEN currentPrice - position.entryPrice
                                             ELSE position.entryPrice - currentPrice
        pct     == (diff * 100) \div (position.entryPrice \div PCT)
    IN  [pct |-> pct, dollars |-> (pct * posSize) \div 100]

calcNetPnl(position, currentPrice) ==
    LET posSize == position.collateral * position.leverage
    IN  calcGrossPnl(position, currentPrice).dollars - calcFees(posSize)

\* mutant: the trailing distance is laid off ahead of the peak
calcTrailingStopPrice_ahead(side, peakPrice) ==
    LET trail == ((peakPrice \div 100) * TRAILING_DISTANCE_PCT) \div PCT
    IN  IF side = "Long" THEN peakPrice + trail ELSE peakPrice - trail

calcTrailingStopPrice(side, peakPrice) ==
    LET trail == ((peakPrice \div 100) * TRAILING_DISTANCE_PCT) \div PCT
    IN  IF side = "Long" THEN peakPrice - trail ELSE peakPrice + trail

-----------------------------------------------------------------------------
(* Position factory *)

createPosition(side, entryPrice, collateral, mode, nowMs) ==
    LET leverage      == futures_leverage
        posSize       == collateral * leverage
        maxLossPct    == (ABSOLUTE_MAX_LOSS_DOLLARS * 100 * PCT) \div posSize
        configStopPct == IF mode = "mean_reversion"
                         THEN (IF strategy_mrStopPercent # 0 THEN strategy_mrStopPercent
                                                             ELSE mrStopFallback)
                         ELSE strategy_initialStopPercent
        stopPct       == Min(configStopPct, maxLossPct)
        targetPct     == IF mode = "mean_reversion"
                         THEN (IF strategy_mrTargetPercent # 0 THEN strategy_mrTargetPercent
                                                               ELSE mrTargetFallback)
                         ELSE strategy_targetProfitPercent
        stopDist      == (entryPrice \div (100 * PCT)) * stopPct
        targetDist    == (entryPrice \div (100 * PCT)) * targetPct
    IN  [ id                  |-> nowMs,
          side                |-> side,
          entryPrice          |-> entryPrice,
          entryTime           |-> nowMs,
          collateral          |-> collateral,
          leverage            |-> leverage,
          stopLoss            |-> IF side = "Long" THEN entryPrice - stopDist
                                                   ELSE entryPrice + stopDist,
          takeProfit          |-> IF side = "Long" THEN entryPrice + targetDist
                                                   ELSE entryPrice - targetDist,
          minProfitTarget     |-> strategy_minProfitDollars,
          maxProfitTarget     |-> strategy_maxProfitDollars,
          status              |-> "open",
          mode                |-> mode,
          peakGrossPnl        |-> 0,
          peakPrice           |-> entryPrice,
          trailingStopActive  |-> FALSE,
          trailingStopPrice   |-> Undefined,
          breakevenStopActive |-> FALSE ]

-----------------------------------------------------------------------------
(* Exit evaluation pipeline *)

NoMutations == [f \in {} |-> 0]         \* const mutations = {}

\* mutant: the operands of the subtraction swapped
Elapsed_swapped(position, nowMs) == (position.entryTime - nowMs) \div 1000

Elapsed(position, nowMs) == (nowMs - position.entryTime) \div 1000

\* mutant: the breaker fires only after the limit, not at it
TimeBreaker_strict(elapsed) == elapsed > ABSOLUTE_MAX_HOLD_SECONDS

\* 1. hard time circuit breaker
TimeBreaker(elapsed) == elapsed >= ABSOLUTE_MAX_HOLD_SECONDS

\* mutant: the breaker fires $5 beyond the cap
LossCapHit_fiveBeyond(netPnl) == netPnl <= -((ABSOLUTE_MAX_LOSS_DOLLARS + 5) * USD)

\* 2. absolute dollar loss cap
LossCapHit(netPnl) == netPnl <= -(ABSOLUTE_MAX_LOSS_DOLLARS * USD)

\* 3. stop loss: the trailing stop when set, else the initial stop
EffectiveStop(position) == Coalesce(position.trailingStopPrice, position.stopLoss)

StopCrossed(position, currentPrice) ==
    \/ position.side = "Long"  /\ currentPrice <= EffectiveStop(position)
    \/ position.side = "Short" /\ currentPrice >= EffectiveStop(position)

\* 4. max profit
MaxProfitHit(position, netPnl) == netPnl >= position.maxProfitTarget * USD

\* mutant: every change of the gross P&L is recorded as the peak
PeakMutations_anyChange(position, currentPrice, grossPnl) ==
    IF grossPnl # position.peakGrossPnl
    THEN LET m == [peakGrossPnl |-> grossPnl]
         IN  IF \/ position.side = "Long"  /\ currentPrice > position.peakPrice
                \/ position.side = "Short" /\ currentPrice < position.peakPrice
             THEN [peakPrice |-> currentPrice] @@ m
             ELSE m
    ELSE NoMutations

\* mutant: a move equal to the peak is recorded as a new peak
PeakMutations_orEqual(position, currentPrice, grossPnl) ==
    IF grossPnl >= position.peakGrossPnl
    THEN LET m == [peakGrossPnl |-> grossPnl]
         IN  IF \/ position.side = "Long"  /\ currentPrice > position.peakPrice
                \/ position.side = "Short" /\ currentPrice < position.peakPrice
             THEN [peakPrice |-> currentPrice] @@ m
             ELSE m
    ELSE NoMutations

\* 5. trailing stop management: peak tracking
PeakMutations(position, currentPrice, grossPnl) ==
    IF grossPnl > position.peakGrossPnl
    THEN LET m == [peakGrossPnl |-> grossPnl]
         IN  IF \/ position.side = "Long"  /\ currentPrice > position.peakPrice
                \/ position.side = "Short" /\ currentPrice < position.peakPrice
             THEN [peakPrice |-> currentPrice] @@ m
             ELSE m
    ELSE NoMutations

\* mutant: a 1 % offset, on the losing side of the entry
BreakevenStop_farSide(position) ==
    IF position.side = "Long"
    THEN position.entryPrice - position.entryPrice \div 100
    ELSE position.entryPrice + position.entryPrice \div 100

\* mutant: the buffer on the wrong side of the entry
BreakevenStop_wrongSide(position) ==
    IF position.side = "Long"
    THEN position.entryPrice - position.entryPrice \div 10000
    ELSE position.entryPrice + position.entryPrice \div 10000

\* mutant: the stop at the entry price, without the buffer
BreakevenStop_noBuffer(position) == position.entryPrice

\* the breakeven stop: entry with a tiny buffer
BreakevenStop(position) ==
    IF position.side = "Long"
    THEN position.entryPrice + position.entryPrice \div 10000     \* * 1.0001
    ELSE position.entryPrice - position.entryPrice \div 10000     \* * 0.9999

\* mutant: breakeven is set again whenever the move is at or above the activation
BreakevenMutations_noGuard(position, grossPnlPct, m) ==
    IF grossPnlPct >= BREAKEVEN_ACTIVATION_PCT
    THEN [breakevenStopActive |-> TRUE, trailingStopPrice |-> BreakevenStop(position)] @@ m
    ELSE m

\* mutant: breakeven is activated later than trailing, at twice its threshold
BreakevenMutations_afterTrailing(position, grossPnlPct, m) ==
    IF ~position.breakevenStopActive /\ grossPnlPct >= 2 * TRAILING_ACTIVATION_PCT
    THEN [breakevenStopActive |-> TRUE, trailingStopPrice |-> BreakevenStop(position)] @@ m
    ELSE m

\* 5. breakeven activation
BreakevenMutations(position, grossPnlPct, m) ==
    IF ~position.breakevenStopActive /\ grossPnlPct >= BREAKEVEN_ACTIVATION_PCT
    THEN [breakevenStopActive |-> TRUE, trailingStopPrice |-> BreakevenStop(position)] @@ m
    ELSE m

\* mutant: trailing activation clears the breakeven flag it supersedes
TrailingActivation_clearsBreakeven(position, grossPnlPct, m) ==
    LET currentPeakPrice == IF "peakPrice" \in DOMAIN m THEN m.peakPrice
                                                        ELSE position.peakPrice
    IN  IF ~position.trailingStopActive /\ grossPnlPct >= TRAILING_ACTIVATION_PCT
        THEN [ trailingStopActive  |-> TRUE,
               breakevenStopActive |-> FALSE,
               trailingStopPrice   |-> calcTrailingStopPrice(position.side, currentPeakPrice) ]
             @@ m
        ELSE m

\* 5. full trailing activation
TrailingActivation(position, grossPnlPct, m) ==
    LET currentPeakPrice == IF "peakPrice" \in DOMAIN m THEN m.peakPrice
                                                        ELSE position.peakPrice
    IN  IF ~position.trailingStopActive /\ grossPnlPct >= TRAILING_ACTIVATION_PCT
        THEN [ trailingStopActive |-> TRUE,
               trailingStopPrice  |-> calcTrailingStopPrice(position.side, currentPeakPrice) ]
             @@ m
        ELSE m

\* 5. ratchet of an active trailing stop on a new peak
TrailingRatchet(position, m) ==
    IF position.trailingStopActive /\ "peakPrice" \in DOMAIN m
    THEN LET newTrailStop     == calcTrailingStopPrice(position.side, m.peakPrice)
             currentTrailStop == Coalesce(position.trailingStopPrice, 0)
         IN  IF \/ position.side = "Long" /\ newTrailStop > currentTrailStop
                \/ position.side = "Short"
                     /\ (currentTrailStop = 0 \/ newTrailStop < currentTrailStop)
             THEN [trailingStopPrice |-> newTrailStop] @@ m
             ELSE m
    ELSE m

TrailingMutations(position, currentPrice, grossPnlPct, grossPnl) ==
    TrailingRatchet(position,
        TrailingActivation(position, grossPnlPct,
            BreakevenMutations(position, grossPnlPct,
                PeakMutations(position, currentPrice, grossPnl))))

\* mutant: half the minimum hold
TakeProfitHit_earlyHold(position, currentPrice, elapsed) ==
    /\ elapsed >= 60
    /\ \/ position.side = "Long"  /\ currentPrice >= position.takeProfit
       \/ position.side = "Short" /\ currentPrice <= position.takeProfit

\* mutant: the minimum hold is not required
TakeProfitHit_noMinHold(position, currentPrice, elapsed) ==
    \/ position.side = "Long"  /\ currentPrice >= position.takeProfit
    \/ position.side = "Short" /\ currentPrice <= position.takeProfit

\* 6. take profit, after the minimum hold
TakeProfitHit(position, currentPrice, elapsed) ==
    /\ elapsed >= SWING_MIN_HOLD_SECONDS
    /\ \/ position.side = "Long"  /\ currentPrice >= position.takeProfit
       \/ position.side = "Short" /\ currentPrice <= position.takeProfit

\* mutant: the first tier opens after ten minutes
GraduatedExit_lateSwing(position, elapsed, netPnl) ==
    IF elapsed >= 600 /\ netPnl >= position.minProfitTarget * USD
        THEN "swing-profit"
    ELSE IF elapsed >= GENEROUS_PROFIT_SECONDS /\ netPnl >= 0
        THEN "generous-exit"
    ELSE IF elapsed >= 1800 /\ netPnl >= -5 * USD
        THEN "capital-free"
    ELSE IF elapsed >= 2700 /\ netPnl >= -10 * USD
        THEN "time-decay-exit"
    ELSE ""

\* mutant: the 30-minute tier is tested before the 15-minute tier
GraduatedExit_tiersSwapped(position, elapsed, netPnl) ==
    IF elapsed >= SWING_PROFIT_SCALE_SECONDS /\ netPnl >= position.minProfitTarget * USD
        THEN "swing-profit"
    ELSE IF elapsed >= 1800 /\ netPnl >= -5 * USD
        THEN "capital-free"
    ELSE IF elapsed >= GENEROUS_PROFIT_SECONDS /\ netPnl >= 0
        THEN "generous-exit"
    ELSE IF elapsed >= 2700 /\ netPnl >= -10 * USD
        THEN "time-decay-exit"
    ELSE ""

\* 7. time-scaled exits: the reason of the first tier that accepts, or "" for none
\* mutant: swing-profit asks for twice the minimum profit target
GraduatedExit_doubleTarget(position, elapsed, netPnl) ==
    IF elapsed >= SWING_PROFIT_SCALE_SECONDS /\ netPnl >= 2 * position.minProfitTarget * USD
        THEN "swing-profit"
    ELSE IF elapsed >= GENEROUS_PROFIT_SECONDS /\ netPnl >= 0
        THEN "generous-exit"
    ELSE IF elapsed >= 1800 /\ netPnl >= -5 * USD
        THEN "capital-free"
    ELSE IF elapsed >= 2700 /\ netPnl >= -10 * USD
        THEN "time-decay-exit"
    ELSE ""

GraduatedExit(position, elapsed, netPnl) ==
    IF elapsed >= SWING_PROFIT_SCALE_SECONDS /\ netPnl >= position.minProfitTarget * USD
        THEN "swing-profit"
    ELSE IF elapsed >= GENEROUS_PROFIT_SECONDS /\ netPnl >= 0
        THEN "generous-exit"
    ELSE IF elapsed >= 1800 /\ netPnl >= -5 * USD
        THEN "capital-free"
    ELSE IF elapsed >= 2700 /\ netPnl >= -10 * USD
        THEN "time-decay-exit"
    ELSE ""

\* mutant: the 10-minute cut is tested before the 3-minute cut
WrongDirection_trendFirst(elapsed, grossPnlPct, grossPnl) ==
    IF elapsed >= 600 /\ grossPnl < -3 * USD
        THEN "trend-failed"
    ELSE IF elapsed >= 180 /\ grossPnlPct < -3000
        THEN "thesis-wrong"
    ELSE ""

\* 8. wrong-direction cut
\* mutant: the trend counts as failed only below -$8 gross
WrongDirection_deepOnly(elapsed, grossPnlPct, grossPnl) ==
    IF elapsed >= 180 /\ grossPnlPct < -3000
        THEN "thesis-wrong"
    ELSE IF elapsed >= 600 /\ grossPnl < -8 * USD
        THEN "trend-failed"
    ELSE ""

WrongDirection(elapsed, grossPnlPct, grossPnl) ==
    IF elapsed >= 180 /\ grossPnlPct < -3000            \* -0.30 %
        THEN "thesis-wrong"
    ELSE IF elapsed >= 600 /\ grossPnl < -3 * USD
        THEN "trend-failed"
    ELSE ""

\* 9. timeout
\* mutant: the caller's override is dropped
MaxSeconds_ignoresOverride(overrideMaxSeconds) ==
    Min(strategy_maxTradeSeconds, ABSOLUTE_MAX_HOLD_SECONDS)

MaxSeconds(overrideMaxSeconds) ==
    Min(Coalesce(overrideMaxSeconds, strategy_maxTradeSeconds), ABSOLUTE_MAX_HOLD_SECONDS)

CloseNow(reason, exitPrice) ==
    [shouldClose |-> TRUE, reason |-> reason, exitPrice |-> exitPrice]

CloseWith(reason, exitPrice, mutations) ==
    [shouldClose |-> TRUE, reason |-> reason, exitPrice |-> exitPrice,
     mutations |-> mutations]

\* The reason of rule 1 carries the rounded elapsed time and that of rule 2 the
\* formatted net P&L; the model keeps the tag.
updatePosition(position, currentPrice, overrideMaxSeconds, nowMs) ==
    LET elapsed     == Elapsed(position, nowMs)
        posSize     == position.collateral * position.leverage
        fees        == calcFees(posSize)
        gross       == calcGrossPnl(position, currentPrice)
        grossPnlPct == gross.pct
        grossPnl    == gross.dollars
        netPnl      == grossPnl - fees
        mutations   == TrailingMutations(position, currentPrice, grossPnlPct, grossPnl)
        graduated   == GraduatedExit(position, elapsed, netPnl)
        wrong       == WrongDirection(elapsed, grossPnlPct, grossPnl)
    IN  IF TimeBreaker(elapsed)
            THEN CloseNow("CIRCUIT-BREAKER-TIME", currentPrice)
        ELSE IF LossCapHit(netPnl)
            THEN CloseNow("CIRCUIT-BREAKER-LOSS", currentPrice)
        ELSE IF StopCrossed(position, currentPrice)
            THEN CloseNow(IF position.trailingStopActive THEN "trailing-stop"
                                                         ELSE "stop-loss", currentPrice)
        ELSE IF MaxProfitHit(position, netPnl)
            THEN CloseNow("max-profit", currentPrice)
        ELSE IF TakeProfitHit(position, currentPrice, elapsed)
            THEN CloseWith("take-profit", currentPrice, mutations)
        ELSE IF graduated # ""
            THEN CloseWith(graduated, currentPrice, mutations)
        ELSE IF wrong # ""
            THEN CloseWith(wrong, currentPrice, mutations)
        ELSE IF elapsed >= MaxSeconds(overrideMaxSeconds)
            THEN CloseWith(IF netPnl >= 0 THEN "timeout-green" ELSE "timeout-red",
                           currentPrice, mutations)
        ELSE IF DOMAIN mutations # {}
            THEN [shouldClose |-> FALSE, mutations |-> mutations]
        ELSE [shouldClose |-> FALSE]

UndefinedMutations == [undefined |-> TRUE]     \* an absent mutations argument

\* mutant: the spread in the other order, { ...mutations, ...position }
applyMutations_positionWins(position, mutations) ==
    IF mutations = UndefinedMutations THEN position ELSE position @@ mutations

\* { ...position, ...mutations }
applyMutations(position, mutations) ==
    IF mutations = UndefinedMutations THEN position ELSE mutations @@ position

\* update.mutations
MutationsOf(update) ==
    IF "mutations" \in DOMAIN update THEN update.mutations ELSE UndefinedMutations

-----------------------------------------------------------------------------
(* Position closer *)

\* mutant: the cap at close time left out
CappedNetPnl_uncapped(netPnl, fees) == netPnl

CappedNetPnl(netPnl, fees) == Max(netPnl, -(ABSOLUTE_MAX_LOSS_DOLLARS * USD) - fees)

\* mutant: the recorded pnl is taken before fees
closePosition_pnlBeforeFees(position, exitPrice, reason, nowMs) ==
    LET posSize  == position.collateral * position.leverage
        fees     == calcFees(posSize)
        grossPnl == calcGrossPnl(position, exitPrice).dollars
    IN  [ status    |-> "closed",
          exitPrice |-> exitPrice,
          exitTime  |-> nowMs,
          pnl       |-> CappedNetPnl(grossPnl, fees),
          fees      |-> fees,
          grossPnl  |-> grossPnl,
          reason    |-> reason ] @@ position

closePosition(position, exitPrice, reason, nowMs) ==
    LET posSize  == position.collateral * position.leverage
        fees     == calcFees(posSize)
        grossPnl == calcGrossPnl(position, exitPrice).dollars
        netPnl   == grossPnl - fees
    IN  [ status    |-> "closed",
          exitPrice |-> exitPrice,
          exitTime  |-> nowMs,
          pnl       |-> CappedNetPnl(netPnl, fees),
          fees      |-> fees,
          grossPnl  |-> grossPnl,
          reason    |-> reason ] @@ position

-----------------------------------------------------------------------------
(* Risk gate *)

\* A history entry carries the fields of Position that checkRiskGate reads:
\* entryTime and status, and exitTime and pnl once it is closed.
HasExitTime(t) == "exitTime" \in DOMAIN t /\ t.exitTime # 0    \* t.exitTime is truthy
PnlOrZero(t) == IF "pnl" \in DOMAIN t THEN t.pnl ELSE 0         \* t.pnl ?? 0

IsClosedTrade(t) == t.status = "closed" /\ HasExitTime(t)

\* mutant: the closed trades are taken in the order of the history
SortByExitDesc_unsorted(s) == s

\* .sort((a, b) => b.exitTime - a.exitTime): most recent exit first, entries
\* with equal exitTime in their order of the input (the sort is stable)
SortByExitDesc(s) ==
    LET n == Len(s)
        Before(i, j) == \/ s[i].exitTime > s[j].exitTime
                        \/ s[i].exitTime = s[j].exitTime /\ i < j
        rank(i) == Cardinality({ j \in 1..n : Before(j, i) }) + 1
    IN  [ k \in 1..n |-> s[CHOOSE i \in 1..n : rank(i) = k] ]

\* mutant: every loss among the closed trades is counted
ConsecutiveLosses_total(closedTrades) ==
    Cardinality({ i \in 1..Len(closedTrades) : PnlOrZero(closedTrades[i]) < 0 })

\* the counting loop: the length of the leading run of entries with pnl < 0
ConsecutiveLosses(closedTrades) ==
    LET n == Len(closedTrades)
        loss(i) == PnlOrZero(closedTrades[i]) < 0
    IN  IF \A i \in 1..n : loss(i)
        THEN n
        ELSE CHOOSE k \in 0..(n - 1) : (\A i \in 1..k : loss(i)) /\ ~loss(k + 1)

RECURSIVE SumPnl(_)
SumPnl(s) == IF s = <<>> THEN 0 ELSE PnlOrZero(Head(s)) + SumPnl(Tail(s))

Blocked(reason) == [allowed |-> FALSE, reason |-> reason]

\* mutant: only closed trades count towards the hourly rate
TradesLastHour_closedOnly(recentTrades, nowMs) ==
    LET InLastHour(t) == t.status = "closed" /\ t.entryTime >= nowMs - 3600000
    IN  SelectSeq(recentTrades, InLastHour)

\* mutant: the rate is counted over the last half hour
TradesLastHour_halfHour(recentTrades, nowMs) ==
    LET InLastHour(t) == t.entryTime >= nowMs - 1800000
    IN  SelectSeq(recentTrades, InLastHour)

\* 1. recentTrades.filter(t => t.entryTime >= oneHourAgo)
TradesLastHour(recentTrades, nowMs) ==
    LET InLastHour(t) == t.entryTime >= nowMs - 3600000
    IN  SelectSeq(recentTrades, InLastHour)

\* mutant: every closed trade counts, however old
DailyPnl_allClosed(recentTrades, nowMs) ==
    SumPnl(SelectSeq(recentTrades, IsClosedTrade))

\* 3. the sum of pnl over the trades closed since oneDayAgo
\* mutant: the day's P&L is summed over the last hour only
DailyPnl_lastHour(recentTrades, nowMs) ==
    LET ClosedToday(t) == IsClosedTrade(t) /\ t.exitTime >= nowMs - 3600000
    IN  SumPnl(SelectSeq(recentTrades, ClosedToday))

DailyPnl(recentTrades, nowMs) ==
    LET ClosedToday(t) == IsClosedTrade(t) /\ t.exitTime >= nowMs - 86400000
    IN  SumPnl(SelectSeq(recentTrades, ClosedToday))

\* mutant: a quarter of the initial balance
BalanceTooLow_quarter(currentBalance) == currentBalance * 4 < risk_initialBalance

\* 4. currentBalance < initialBalance * 0.5
BalanceTooLow(currentBalance) == currentBalance * 2 < risk_initialBalance

\* mutant: the sort is applied to recentTrades itself, without the filter
\* that copies it
RecentTradesAfter_sortedInPlace(recentTrades) ==
    LET n == Len(recentTrades)
        exit(i) == IF "exitTime" \in DOMAIN recentTrades[i]
                   THEN recentTrades[i].exitTime ELSE 0
        Before(i, j) == exit(i) > exit(j) \/ (exit(i) = exit(j) /\ i < j)
        rank(i) == Cardinality({ j \in 1..n : Before(j, i) }) + 1
    IN  [ k \in 1..n |-> recentTrades[CHOOSE i \in 1..n : rank(i) = k] ]

\* The array passed as recentTrades, after the call: filter() returns new
\* arrays, and sort(), which orders in place, is applied to such a copy.
RecentTradesAfter(recentTrades) == recentTrades

\* The reasons of the source are messages that carry the figures of the check;
\* the model keeps the kind of the message.
checkRiskGate(recentTrades, currentBalance, nowMs) ==
    LET tradesLastHour == TradesLastHour(recentTrades, nowMs)
        closedTrades == SortByExitDesc(SelectSeq(recentTrades, IsClosedTrade))
        consecutiveLosses == ConsecutiveLosses(closedTrades)
        pauseUntil == (IF closedTrades # <<>> THEN closedTrades[1].exitTime ELSE 0)
                        + risk_pauseAfterLossesMinutes * 60000
        dailyPnl == DailyPnl(recentTrades, nowMs)
        absDailyPnl == IF dailyPnl < 0 THEN -dailyPnl ELSE dailyPnl
    IN  IF Len(tradesLastHour) >= risk_maxTradesPerHour
            THEN Blocked("Rate limit")
        ELSE IF consecutiveLosses >= risk_maxConsecutiveLosses /\ nowMs < pauseUntil
            THEN Blocked("Pause")
        ELSE IF dailyPnl <= -(risk_maxDailyLossDollars * USD)
            THEN Blocked("Daily loss limit")
        \* dailyLossPct = |dailyPnl| / initialBalance * 100, compared without the division
        ELSE IF dailyPnl < 0
                /\ absDailyPnl * 100 >= risk_maxDailyLossPercent * (risk_initialBalance * USD)
            THEN Blocked("Daily loss %")
        ELSE IF BalanceTooLow(currentBalance)
            THEN Blocked("Balance too low")
        ELSE [allowed |-> TRUE]

-----------------------------------------------------------------------------
(* Inputs and bounds *)

MaxNow == 3720000                       \* the clock is modelled up to 62 minutes
TimeSteps == {0, 60000, 300000, 3600000}
MinStep == CHOOSE d \in TimeSteps \ {0} : \A e \in TimeSteps \ {0} : d <= e
Sides == {"Long", "Short"}
Modes == {"mean_reversion", "swing"}    \* "momentum" takes the branches of "swing"
Collaterals == {250, 500}
EntryPrices == {1000000}                \* 100.0000
\* price moves, in 1/10000 of a percent of the entry price: from a 4.1 % adverse gap
\* to a 4.1 % jump past the max-profit target, for either side
Moves == { -41000, -12000, -8000, -5000, -3500, -2000, -200, 0,
           200, 2000, 3500, 5000, 8000, 12000, 41000 }
Prices == { 1000000 + m : m \in Moves }
Overrides == {Undefined, 600}

NoPosition == [status |-> "none"]
NoCall == [called |-> FALSE]
NoGate == [called |-> FALSE]
NoLoop == [started |-> FALSE]
Null == [null |-> TRUE]                 \* JavaScript null for an object
\* let cachedBrief = null, lastFetch = 0, lastRegime = "", regimeStableSince = 0
NoReader == [ cachedBrief |-> Null, lastFetch |-> 0, lastRegime |-> "",
              regimeStableSince |-> 0, called |-> FALSE ]

-----------------------------------------------------------------------------
(* The tick protocol *)

Init ==
    /\ now = 0
    /\ pos = NoPosition
    /\ last = NoCall
    /\ trades = <<>>
    /\ gate = NoGate
    /\ loop = NoLoop
    /\ reader = NoReader

\* No position is open: the scan passes and the clock moves on.
Idle(d) ==
    /\ pos.status # "open"
    /\ d > 0
    /\ now + d + ABSOLUTE_MAX_HOLD_SECONDS * 1000 + MinStep <= MaxNow
    /\ now' = now + d
    /\ UNCHANGED <<pos, last, trades, gate, loop, reader>>

\* The caller opens a position (while the clock leaves room for its full hold).
Open(side, entryPrice, collateral, mode) ==
    /\ pos.status # "open"
    /\ now + ABSOLUTE_MAX_HOLD_SECONDS * 1000 + MinStep <= MaxNow
    /\ pos' = createPosition(side, entryPrice, collateral, mode, now)
    /\ last' = NoCall
    /\ UNCHANGED <<now, trades, gate, loop, reader>>

\* One tick: d ms after the previous one the open position is evaluated at
\* currentPrice; it is closed at the returned exitPrice when shouldClose, else
\* the mutations are applied.
Tick(d, currentPrice, overrideMaxSeconds) ==
    /\ pos.status = "open"
    /\ now + d <= MaxNow
    /\ now' = now + d
    /\ LET update == updatePosition(pos, currentPrice, overrideMaxSeconds, now')
       IN  /\ last' = [ called |-> TRUE, position |-> pos, currentPrice |-> currentPrice,
                        overrideMaxSeconds |-> overrideMaxSeconds,
                        elapsed |-> Elapsed(pos, now'), update |-> update ]
           /\ pos' = IF update.shouldClose
                     THEN closePosition(pos, update.exitPrice, update.reason, now')
                     ELSE applyMutations(pos, MutationsOf(update))
    /\ UNCHANGED <<trades, gate, loop, reader>>

Next ==
    \/ \E d \in TimeSteps : Idle(d)
    \/ \E s \in Sides, e \in EntryPrices, c \in Collaterals, m \in Modes : Open(s, e, c, m)
    \/ \E d \in TimeSteps, p \in Prices, o \in Overrides : Tick(d, p, o)

Spec == Init /\ [][Next]_vars

\* The same protocol over fewer inputs, for the temporal checks: the scheduler
\* keeps scanning and the wall clock moves on between two scans.
LivePrices == { 1000000 + m : m \in {-41000, -8000, -3500, -200, 0, 200, 3500, 8000, 41000} }

LiveTick(d, currentPrice) == Tick(d, currentPrice, Undefined)

TimedTick == \E d \in TimeSteps \ {0}, p \in LivePrices : LiveTick(d, p)

LiveNext ==
    \/ \E d \in TimeSteps : Idle(d)
    \/ \E s \in Sides, e \in EntryPrices, m \in Modes : Open(s, e, 500, m)
    \/ \E d \in TimeSteps, p \in LivePrices : LiveTick(d, p)

LiveSpec == Init /\ [][LiveNext]_vars /\ WF_vars(TimedTick)

-----------------------------------------------------------------------------
(* Properties *)

IsOpen == pos.status = "open"
IsClosed == pos.status = "closed"

\* Date.now() and the elapsed seconds of the last updatePosition call on the
\* current position; last.position is the position that call was given, pos the
\* position the caller holds after it
CallTime == IF IsClosed THEN pos.exitTime ELSE now
LastElapsed == (CallTime - pos.entryTime) \div 1000

\* C1: whatever the prices of the ticks were (gaps far beyond the stop included),
\* the pnl that closePosition records is never below
\* -(ABSOLUTE_MAX_LOSS_DOLLARS + fees).
C1_LossCapWithFees ==
    IsClosed => pos.pnl >= -(ABSOLUTE_MAX_LOSS_DOLLARS * USD + pos.fees)

\* a position closed on a gap: the uncapped net P&L is below the cap, and the
\* recorded pnl is the cap
C1_Witness ==
    /\ IsClosed
    /\ pos.grossPnl - pos.fees < -(ABSOLUTE_MAX_LOSS_DOLLARS * USD + pos.fees)
    /\ pos.pnl = -(ABSOLUTE_MAX_LOSS_DOLLARS * USD + pos.fees)

\* C2: the net pnl recorded for a closed trade is never below
\* -ABSOLUTE_MAX_LOSS_DOLLARS ($25).
C2_HardDollarCeiling ==
    IsClosed => pos.pnl >= -(ABSOLUTE_MAX_LOSS_DOLLARS * USD)

\* C3: a call with elapsed >= ABSOLUTE_MAX_HOLD_SECONDS closes with the
\* circuit-breaker-time reason at currentPrice, whatever the price, the side, the
\* P&L and the trailing state.
C3_TimeBreakerUnconditional ==
    (last.called /\ LastElapsed >= 3600) =>
        /\ last.update.shouldClose
        /\ last.update.reason = "CIRCUIT-BREAKER-TIME"
        /\ last.update.exitPrice = last.currentPrice

\* the time breaker fired on a position with an active trailing stop whose price
\* was also at or beyond the loss cap
C3_Witness ==
    /\ IsClosed
    /\ LastElapsed >= 3600
    /\ pos.reason = "CIRCUIT-BREAKER-TIME"
    /\ pos.trailingStopActive
    /\ pos.grossPnl - pos.fees <= -(25 * USD)

\* C4 (under LiveSpec: ticks keep occurring with the clock moving on): no position
\* is open after a tick whose elapsed time is >= ABSOLUTE_MAX_HOLD_SECONDS, and
\* every opened position is eventually closed.
C4_HoldCeiling ==
    /\ []((IsOpen /\ last.called) => LastElapsed < 3600)
    /\ (IsOpen ~> IsClosed)

\* a position that was still open after more than 45 minutes without a tick is
\* closed by the tick at elapsed >= 3600 s
C4_Witness ==
    /\ IsClosed
    /\ LastElapsed >= 3600
    /\ pos.reason = "CIRCUIT-BREAKER-TIME"
    /\ pos.grossPnl > 0

\* C5: the closing reason is that of the first rule, in the order 1 time breaker,
\* 2 loss cap, 3 stop, 4 max profit, 6 take-profit, 7 graduated exits, 8
\* wrong-direction cut, 9 timeout, whose condition holds on the position passed
\* in; shouldClose = false is returned exactly when none holds.
RuleTable(position, currentPrice, overrideMaxSeconds, nowMs) ==
    LET elapsed == (nowMs - position.entryTime) \div 1000
        gross   == calcGrossPnl(position, currentPrice)
        net     == calcNetPnl(position, currentPrice)
        long    == position.side = "Long"
        stop    == IF position.trailingStopPrice # Undefined
                   THEN position.trailingStopPrice ELSE position.stopLoss
        limit   == IF overrideMaxSeconds # Undefined THEN overrideMaxSeconds ELSE 3600
    IN  << [ holds  |-> elapsed >= 3600,
             reason |-> "CIRCUIT-BREAKER-TIME" ],
           [ holds  |-> net <= -25 * USD,
             reason |-> "CIRCUIT-BREAKER-LOSS" ],
           [ holds  |-> IF long THEN currentPrice <= stop ELSE currentPrice >= stop,
             reason |-> IF position.trailingStopActive THEN "trailing-stop"
                                                       ELSE "stop-loss" ],
           [ holds  |-> net >= position.maxProfitTarget * USD,
             reason |-> "max-profit" ],
           [ holds  |-> /\ elapsed >= 120
                        /\ IF long THEN currentPrice >= position.takeProfit
                                   ELSE currentPrice <= position.takeProfit,
             reason |-> "take-profit" ],
           [ holds  |-> elapsed >= 300 /\ net >= position.minProfitTarget * USD,
             reason |-> "swing-profit" ],
           [ holds  |-> elapsed >= 900 /\ net >= 0,
             reason |-> "generous-exit" ],
           [ holds  |-> elapsed >= 1800 /\ net >= -5 * USD,
             reason |-> "capital-free" ],
           [ holds  |-> elapsed >= 2700 /\ net >= -10 * USD,
             reason |-> "time-decay-exit" ],
           [ holds  |-> elapsed >= 180 /\ gross.pct < -3000,
             reason |-> "thesis-wrong" ],
           [ holds  |-> elapsed >= 600 /\ gross.dollars < -3 * USD,
             reason |-> "trend-failed" ],
           [ holds  |-> elapsed >= (IF limit < 3600 THEN limit ELSE 3600) /\ net >= 0,
             reason |-> "timeout-green" ],
           [ holds  |-> elapsed >= (IF limit < 3600 THEN limit ELSE 3600) /\ net < 0,
             reason |-> "timeout-red" ] >>

FirstMatch(table) ==
    IF \E i \in DOMAIN table : table[i].holds
    THEN CHOOSE i \in DOMAIN table :
            table[i].holds /\ \A j \in DOMAIN table : table[j].holds => i <= j
    ELSE 0

C6_TrailingRatchet ==
    (last.called /\ last.position.trailingStopActive) =>
        IF pos.side = "Long"
        THEN pos.trailingStopPrice >= last.position.trailingStopPrice
        ELSE pos.trailingStopPrice <= last.position.trailingStopPrice

\* an active trailing stop that has been ratcheted beyond its activation level
C6_Witness ==
    /\ IsOpen
    /\ pos.trailingStopActive
    /\ last.called
    /\ "trailingStopPrice" \in DOMAIN MutationsOf(last.update)
    /\ "trailingStopActive" \notin DOMAIN MutationsOf(last.update)

\* C7: peakGrossPnl never decreases, and peakPrice changes only together with a
\* new peakGrossPnl and only to a more favorable price.
C7_PeakMonotone ==
    last.called =>
        /\ pos.peakGrossPnl >= last.position.peakGrossPnl
        /\ pos.peakPrice # last.position.peakPrice =>
              /\ pos.peakGrossPnl > last.position.peakGrossPnl
              /\ IF pos.side = "Long" THEN pos.peakPrice > last.position.peakPrice
                                      ELSE pos.peakPrice < last.position.peakPrice

\* a position whose peak was raised, evaluated at a price below the peak and left
\* open without mutations
C7_Witness ==
    /\ IsOpen
    /\ pos.peakGrossPnl > 0
    /\ last.called
    /\ calcGrossPnl(pos, last.currentPrice).dollars < pos.peakGrossPnl
    /\ "mutations" \notin DOMAIN last.update

\* C8: breakevenStopActive and trailingStopActive never go back to false, and once
\* trailing is active no later call sets trailingStopPrice to the breakeven value.
C8_FlagsOneWay ==
    last.called =>
        /\ last.position.breakevenStopActive => pos.breakevenStopActive
        /\ last.position.trailingStopActive =>
              /\ pos.trailingStopActive
              /\ pos.trailingStopPrice # BreakevenStop(pos)

\* a position with trailing active, evaluated again at a move >= the breakeven
\* activation and still open
C8_Witness ==
    /\ IsOpen
    /\ pos.trailingStopActive
    /\ pos.breakevenStopActive
    /\ last.called
    /\ "trailingStopActive" \notin DOMAIN MutationsOf(last.update)
    /\ calcGrossPnl(pos, last.currentPrice).pct >= 3500

\* C9: breakevenStopActive implies a defined trailingStopPrice at or beyond the
\* entry price on the profitable side.
C9_BreakevenStopBeyondEntry ==
    (pos.status # "none" /\ pos.breakevenStopActive) =>
        /\ pos.trailingStopPrice # Undefined
        /\ IF pos.side = "Long" THEN pos.trailingStopPrice >= pos.entryPrice
                                ELSE pos.trailingStopPrice <= pos.entryPrice

\* breakeven active without trailing: the stop is the breakeven stop
C9_Witness ==
    /\ IsOpen
    /\ pos.breakevenStopActive
    /\ ~pos.trailingStopActive

\* the call that activated breakeven, its mutations applied
BreakevenJustActivated ==
    /\ IsOpen
    /\ last.called
    /\ "breakevenStopActive" \in DOMAIN MutationsOf(last.update)

-----------------------------------------------------------------------------
(* The core called on a position that is already closed *)

\* The position is as its first close left it: the last pipeline call was made
\* on the open position and its close is the one recorded.
FirstClosed ==
    /\ pos.status = "closed"
    /\ last.called
    /\ last.position.status = "open"
    /\ pos.exitPrice = last.update.exitPrice
    /\ pos.reason = last.update.reason

\* updatePosition, applyMutations and closePosition never read status: a caller
\* that evaluates a closed position again gets the same pipeline, and follows
\* its result as for an open one.
LateTick(d, currentPrice) ==
    /\ FirstClosed
    /\ now + d <= MaxNow
    /\ now' = now + d
    /\ LET update == updatePosition(pos, currentPrice, Undefined, now')
       IN  /\ last' = [ called |-> TRUE, position |-> pos, currentPrice |-> currentPrice,
                        overrideMaxSeconds |-> Undefined,
                        elapsed |-> Elapsed(pos, now'), update |-> update ]
           /\ pos' = IF update.shouldClose
                     THEN closePosition(pos, update.exitPrice, update.reason, now')
                     ELSE applyMutations(pos, MutationsOf(update))
    /\ UNCHANGED <<trades, gate, loop, reader>>

\* closePosition called a second time, as by two callers closing the same position.
LateClose(exitPrice, reason) ==
    /\ FirstClosed
    /\ pos' = closePosition(pos, exitPrice, reason, now)
    /\ UNCHANGED <<now, last, trades, gate, loop, reader>>

LatePrices == { 1000000 + m : m \in {-3500, 0, 3500} }
LateReasons == {"stop-loss", "manual"}

\* One position from creation on: it is created once and never replaced.
LifecycleNext ==
    \/ \E s \in Sides, e \in EntryPrices, m \in Modes : pos = NoPosition /\ Open(s, e, 500, m)
    \/ \E d \in TimeSteps, p \in LivePrices : LiveTick(d, p)
    \/ \E p \in LatePrices : LateTick(MinStep, p)
    \/ \E p \in LatePrices, r \in LateReasons : LateClose(p, r)

LifecycleSpec == Init /\ [][LifecycleNext]_vars

\* C11: once a position has status closed, no call of the core changes any of
\* its fields (status, exitPrice, exitTime, pnl, fees, grossPnl, reason and
\* the rest): every step from a closed position leaves the position as it is.
C11_ClosedIsFinal == [][IsClosed => pos' = pos]_vars


-----------------------------------------------------------------------------
(* updatePosition as a function of its arguments *)

\* A position straight from createPosition, or after one evaluation at its
\* entry time, is evaluated once at a chosen elapsed time, price and override:
\* the elapsed times sit on both sides of every time threshold of the
\* pipeline and the prices on its price and P&L thresholds.
CallTimes == { 119, 120, 179, 180, 299, 300, 400, 599, 600, 899, 900,
               1799, 1800, 2699, 2700, 3599, 3600 }
CallMoves == { -41000, -8000, -6500, -5000, -3500, -2500, -1500, -1400, -1000, -200, 0,
               200, 1000, 2000, 2200, 3500, 4000, 5000, 8000, 12000, 41000 }
CallPrices == { 1000000 + m : m \in CallMoves }
CallCollaterals == {100, 500, 1000}
CallOverrides == {Undefined, 600, 7200}

CallOpen(side, entryPrice, collateral, mode) ==
    /\ pos = NoPosition
    /\ Open(side, entryPrice, collateral, mode)

WarmUp(currentPrice) ==
    /\ last = NoCall
    /\ Tick(0, currentPrice, Undefined)

Call(elapsed, currentPrice, overrideMaxSeconds) ==
    /\ pos.status = "open"
    /\ now = pos.entryTime
    /\ Tick(elapsed * 1000, currentPrice, overrideMaxSeconds)

CallNext ==
    \/ \E s \in Sides, e \in EntryPrices, c \in CallCollaterals, m \in Modes :
          CallOpen(s, e, c, m)
    \/ \E p \in CallPrices : WarmUp(p)
    \/ \E t \in CallTimes, p \in CallPrices, o \in CallOverrides : Call(t, p, o)

CallSpec == Init /\ [][CallNext]_vars

HasPosition == pos.status \in {"open", "closed"}

\* The stop percent the configuration gives the mode, in 1e-4 %.
ConfiguredStopPct(mode) == IF mode = "mean_reversion" THEN 2500 ELSE 6500

\* C12: the initial stop distance is min(configured stop % of the mode,
\* ABSOLUTE_MAX_LOSS_DOLLARS / (collateral * leverage) * 100) percent of the
\* entry, stopLoss lies on the losing side and takeProfit on the winning side
\* of the entry, and the gross loss at the initial stopLoss is at most
\* ABSOLUTE_MAX_LOSS_DOLLARS, for both sides, every mode and every collateral.
C12_StopCappedAtMaxLoss ==
    HasPosition =>
        LET notional == pos.collateral * pos.leverage
            capPct   == (25 * 100 * PCT) \div notional
            stopPct  == IF ConfiguredStopPct(pos.mode) <= capPct
                        THEN ConfiguredStopPct(pos.mode) ELSE capPct
            stopDist == IF pos.side = "Long" THEN pos.entryPrice - pos.stopLoss
                                             ELSE pos.stopLoss - pos.entryPrice
            tpDist   == IF pos.side = "Long" THEN pos.takeProfit - pos.entryPrice
                                             ELSE pos.entryPrice - pos.takeProfit
        IN  /\ stopDist > 0
            /\ tpDist > 0
            /\ stopDist * 100 = (pos.entryPrice \div PCT) * stopPct
            /\ calcGrossPnl(pos, pos.stopLoss).dollars >= -25 * USD
            /\ calcGrossPnl(pos, pos.stopLoss).dollars <= 0

\* A position whose configured stop was cut down to the loss cap: the gross
\* loss at its stopLoss is exactly ABSOLUTE_MAX_LOSS_DOLLARS.
C12_Witness ==
    /\ HasPosition
    /\ pos.mode = "swing"
    /\ pos.collateral = 1000
    /\ pos.entryPrice - pos.stopLoss \in {2500, -2500}
    /\ calcGrossPnl(pos, pos.stopLoss).dollars = -25 * USD


-----------------------------------------------------------------------------
(* Rule 3 and the two stops *)

\* The tighter of stopLoss and trailingStopPrice: the one nearer to the
\* winning side.
TighterStop(position) ==
    IF position.side = "Long"
        THEN (IF position.trailingStopPrice >= position.stopLoss
                THEN position.trailingStopPrice ELSE position.stopLoss)
        ELSE (IF position.trailingStopPrice <= position.stopLoss
                THEN position.trailingStopPrice ELSE position.stopLoss)

CrossedStop(position, stop, price) ==
    IF position.side = "Long" THEN price <= stop ELSE price >= stop

StopReasons == {"stop-loss", "trailing-stop"}

\* C13: whenever trailingStopPrice is set it is at least as tight as stopLoss
\* (>= for Long, <= for Short), so that crossing "trailingStopPrice if set,
\* else stopLoss" is crossing the tighter of the two stops: at every price the
\* two tests agree, and a call made on such a position closes with a stop
\* reason exactly when the price crossed the tighter stop and neither circuit
\* breaker fired.
C13_TrailingAtLeastAsTight ==
    /\ (HasPosition /\ pos.trailingStopPrice # Undefined) =>
          /\ IF pos.side = "Long" THEN pos.trailingStopPrice >= pos.stopLoss
                                  ELSE pos.trailingStopPrice <= pos.stopLoss
          /\ \A p \in Prices :
                CrossedStop(pos, pos.trailingStopPrice, p)
                    <=> CrossedStop(pos, TighterStop(pos), p)
    /\ (last.called /\ last.position.trailingStopPrice # Undefined) =>
          LET before == last.position
              net    == calcNetPnl(before, last.currentPrice)
              breakers == last.elapsed >= 3600 \/ net <= -25 * USD
          IN  (last.update.shouldClose /\ last.update.reason \in StopReasons)
                  <=> (~breakers /\ CrossedStop(before, TighterStop(before), last.currentPrice))

\* A position with a trailing stop was closed by rule 3 at a price that had
\* crossed the trailing stop but not the initial stopLoss.
C13_Witness ==
    /\ IsClosed
    /\ last.called
    /\ last.position.trailingStopPrice # Undefined
    /\ last.update.reason \in StopReasons
    /\ CrossedStop(last.position, last.position.trailingStopPrice, last.currentPrice)
    /\ ~CrossedStop(last.position, last.position.stopLoss, last.currentPrice)


-----------------------------------------------------------------------------
(* Rule 5 produces mutations, never an exit *)

\* What rule 5 found in the last call, from the position passed to the call
\* and the price: a new peak of the gross P&L, breakeven activation, trailing
\* activation, a ratchet of the active trailing stop.
NewPeak == calcGrossPnl(last.position, last.currentPrice).dollars > last.position.peakGrossPnl

BreakevenActivated ==
    /\ ~last.position.breakevenStopActive
    /\ calcGrossPnl(last.position, last.currentPrice).pct >= 3500

TrailingActivated ==
    /\ ~last.position.trailingStopActive
    /\ calcGrossPnl(last.position, last.currentPrice).pct >= 5000

Ratcheted ==
    /\ last.position.trailingStopActive
    /\ NewPeak
    /\ IF last.position.side = "Long"
       THEN /\ last.currentPrice > last.position.peakPrice
            /\ calcTrailingStopPrice("Long", last.currentPrice) > last.position.trailingStopPrice
       ELSE /\ last.currentPrice < last.position.peakPrice
            /\ calcTrailingStopPrice("Short", last.currentPrice) < last.position.trailingStopPrice

TrailingFields ==
    {"peakGrossPnl", "peakPrice", "breakevenStopActive", "trailingStopActive",
     "trailingStopPrice"}

\* C14: rule 5 never closes. A call in which no closing rule's condition
\* holds returns shouldClose = false; a call that does not close carries
\* mutations exactly when rule 5 recorded a new peak, activated breakeven,
\* activated trailing or ratcheted the trailing stop, and no mutations field
\* otherwise; the mutations touch only the trailing-state fields, and the
\* position after the call differs from the one before in those fields only.
C14_MutationsOnlyFromRule5 ==
    last.called =>
        LET table == RuleTable(last.position, last.currentPrice,
                               last.overrideMaxSeconds, CallTime)
            wrote == NewPeak \/ BreakevenActivated \/ TrailingActivated \/ Ratcheted
        IN  /\ (\A i \in DOMAIN table : ~table[i].holds) => ~last.update.shouldClose
            /\ ~last.update.shouldClose =>
                  /\ ("mutations" \in DOMAIN last.update) <=> wrote
                  /\ "mutations" \in DOMAIN last.update =>
                        /\ DOMAIN last.update.mutations # {}
                        /\ DOMAIN last.update.mutations \subseteq TrailingFields
                        /\ Ratcheted => "trailingStopPrice" \in DOMAIN last.update.mutations
                  /\ \A f \in DOMAIN last.position \ TrailingFields :
                        pos[f] = last.position[f]
                  /\ "mutations" \notin DOMAIN last.update => pos = last.position

\* A call that closed nothing and carried mutations: breakeven was activated
\* on a new peak, below the trailing activation.
C14_Witness ==
    /\ IsOpen
    /\ last.called
    /\ ~last.update.shouldClose
    /\ BreakevenActivated
    /\ ~TrailingActivated
    /\ "mutations" \in DOMAIN last.update
    /\ DOMAIN last.update.mutations =
          {"peakGrossPnl", "peakPrice", "breakevenStopActive", "trailingStopPrice"}


-----------------------------------------------------------------------------
(* Rules 6 to 9: the time-gated exits *)

\* The last call, read from its arguments: the reason it returned ("" when it
\* did not close), its P&L figures, and the conditions of rules 1 to 4.
LastReason == IF last.called /\ last.update.shouldClose THEN last.update.reason ELSE ""
LastNet == calcNetPnl(last.position, last.currentPrice)
LastGross == calcGrossPnl(last.position, last.currentPrice)

Rules1to4Hold ==
    \/ last.elapsed >= 3600
    \/ LastNet <= -25 * USD
    \/ CrossedStop(last.position,
                   IF last.position.trailingStopPrice # Undefined
                   THEN last.position.trailingStopPrice ELSE last.position.stopLoss,
                   last.currentPrice)
    \/ LastNet >= last.position.maxProfitTarget * USD

ReachedTakeProfit ==
    IF last.position.side = "Long" THEN last.currentPrice >= last.position.takeProfit
                                   ELSE last.currentPrice <= last.position.takeProfit

\* C15: updatePosition never returns reason take-profit when elapsed < 120 s,
\* even with the price at or beyond takeProfit; when elapsed >= 120 s, no
\* earlier rule fires and the price has reached takeProfit, it closes with
\* reason take-profit at currentPrice.
C15_TakeProfitAfterMinHold ==
    last.called =>
        /\ last.elapsed < 120 => LastReason # "take-profit"
        /\ LastReason = "take-profit" => ReachedTakeProfit
        /\ (last.elapsed >= 120 /\ ~Rules1to4Hold /\ ReachedTakeProfit) =>
              /\ last.update.shouldClose
              /\ last.update.reason = "take-profit"
              /\ last.update.exitPrice = last.currentPrice

\* One second before the minimum hold the price is at or beyond takeProfit,
\* no earlier rule fires, and the position stays open.
C15_Witness ==
    /\ IsOpen
    /\ last.called
    /\ last.elapsed = 119
    /\ ReachedTakeProfit
    /\ ~Rules1to4Hold
    /\ ~last.update.shouldClose


Rule6Holds == last.elapsed >= 120 /\ ReachedTakeProfit

\* The condition of each tier of rule 7, on its own.
SwingProfitTier  == last.elapsed >= 300  /\ LastNet >= last.position.minProfitTarget * USD
GenerousExitTier == last.elapsed >= 900  /\ LastNet >= 0
CapitalFreeTier  == last.elapsed >= 1800 /\ LastNet >= -5 * USD
TimeDecayTier    == last.elapsed >= 2700 /\ LastNet >= -10 * USD

TierReasons == {"swing-profit", "generous-exit", "capital-free", "time-decay-exit"}

\* C16: when rules 1 to 4 and 6 do not fire, the tiers of rule 7 are tried
\* in ascending order of elapsed time and the first one satisfied decides:
\* swing-profit (elapsed >= 300, net >= minProfitTarget), otherwise
\* generous-exit (>= 900, net >= 0), otherwise capital-free (>= 1800,
\* net >= -5), otherwise time-decay-exit (>= 2700, net >= -10); no tier reason
\* is returned when elapsed < 300 s, nor when rules 1 to 4 or 6 fire.
C16_GraduatedTiersInOrder ==
    last.called =>
        /\ last.elapsed < 300 => LastReason \notin TierReasons
        /\ (Rules1to4Hold \/ Rule6Holds) => LastReason \notin TierReasons
        /\ ~(Rules1to4Hold \/ Rule6Holds) =>
              /\ LastReason = "swing-profit" <=> SwingProfitTier
              /\ LastReason = "generous-exit" <=> (~SwingProfitTier /\ GenerousExitTier)
              /\ LastReason = "capital-free" <=>
                    (~SwingProfitTier /\ ~GenerousExitTier /\ CapitalFreeTier)
              /\ LastReason = "time-decay-exit" <=>
                    (~SwingProfitTier /\ ~GenerousExitTier /\ ~CapitalFreeTier
                        /\ TimeDecayTier)
              /\ LastReason \in TierReasons => last.update.exitPrice = last.currentPrice

\* The last tier decided: after 45 minutes a net loss between $5 and $10 is
\* accepted, the three earlier tiers having refused it.
C16_Witness ==
    /\ IsClosed
    /\ last.called
    /\ pos.reason = "time-decay-exit"
    /\ last.elapsed >= 2700
    /\ LastNet < -5 * USD
    /\ LastNet >= -10 * USD


Rule7Holds == SwingProfitTier \/ GenerousExitTier \/ CapitalFreeTier \/ TimeDecayTier

\* The conditions of the two wrong-direction cuts of rule 8.
ThesisWrongCut == last.elapsed >= 180 /\ LastGross.pct < -3000
TrendFailedCut == last.elapsed >= 600 /\ LastGross.dollars < -3 * USD

CutReasons == {"thesis-wrong", "trend-failed"}

Rule8Holds == ThesisWrongCut \/ TrendFailedCut

\* The hold limit of rule 9 in the last call: the caller's override when one
\* was given, else the configured maxTradeSeconds, and never more than the
\* absolute maximum.
TimeoutLimit ==
    LET wanted == IF last.overrideMaxSeconds # Undefined THEN last.overrideMaxSeconds
                                                         ELSE 3600
    IN  IF wanted <= 3600 THEN wanted ELSE 3600

TimeoutReasons == {"timeout-green", "timeout-red"}

\* C18: when no earlier rule fires, updatePosition closes as soon as
\* elapsed >= min(overrideMaxSeconds if given, else maxTradeSeconds;
\* ABSOLUTE_MAX_HOLD_SECONDS), with reason timeout-green when net P&L >= 0 and
\* timeout-red otherwise, and does not close before; a timeout reason is
\* returned in no other case; and whatever the override (one larger than
\* ABSOLUTE_MAX_HOLD_SECONDS included), no call with
\* elapsed >= ABSOLUTE_MAX_HOLD_SECONDS returns shouldClose = false.
C18_TimeoutClamped ==
    last.called =>
        LET earlier == Rules1to4Hold \/ Rule6Holds \/ Rule7Holds \/ Rule8Holds
        IN  /\ (~earlier /\ last.elapsed >= TimeoutLimit) =>
                  /\ last.update.shouldClose
                  /\ last.update.reason =
                        (IF LastNet >= 0 THEN "timeout-green" ELSE "timeout-red")
                  /\ last.update.exitPrice = last.currentPrice
            /\ (~earlier /\ last.elapsed < TimeoutLimit) => ~last.update.shouldClose
            /\ LastReason \in TimeoutReasons => (~earlier /\ last.elapsed >= TimeoutLimit)
            /\ last.elapsed >= 3600 => last.update.shouldClose

\* An override of ten minutes ended a trade in the green at its limit, long
\* before the configured and the absolute maximum.
C18_Witness ==
    /\ IsClosed
    /\ last.called
    /\ last.overrideMaxSeconds = 600
    /\ last.elapsed = 600
    /\ pos.reason = "timeout-green"


-----------------------------------------------------------------------------
(* closePosition *)

CloseFields == {"status", "exitPrice", "exitTime", "pnl", "fees", "grossPnl", "reason"}

\* C19: closePosition records fees and grossPnl equal to the fees and gross
\* P&L that updatePosition works with for the same position and price (round
\* trip fees of 0.06 % of the notional; the signed move times the notional),
\* pnl = max(grossPnl - fees, -ABSOLUTE_MAX_LOSS_DOLLARS - fees), status
\* closed with the exitPrice and reason it was given, and leaves every other
\* field of the position as it was.
C19_CloseEconomics ==
    (last.called /\ last.update.shouldClose) =>
        LET before   == last.position
            notional == before.collateral * before.leverage
            move     == IF before.side = "Long" THEN last.update.exitPrice - before.entryPrice
                                                ELSE before.entryPrice - last.update.exitPrice
            uncapped == pos.grossPnl - pos.fees
            floor    == -(25 * USD) - pos.fees
        IN  /\ pos.status = "closed"
            /\ pos.exitPrice = last.update.exitPrice
            /\ pos.reason = last.update.reason
            /\ pos.exitTime = now
            /\ pos.fees = calcFees(notional)
            /\ pos.fees = notional * 6
            /\ pos.grossPnl = LastGross.dollars
            /\ pos.grossPnl = (move * notional) \div (before.entryPrice \div USD)
            /\ uncapped = LastNet
            /\ pos.pnl = (IF uncapped >= floor THEN uncapped ELSE floor)
            /\ DOMAIN pos = DOMAIN before \cup CloseFields
            /\ \A f \in DOMAIN before \ CloseFields : pos[f] = before[f]

\* A close on a gap: the recorded pnl is the cap, below it the uncapped net
\* P&L that the pipeline saw, and grossPnl is recorded uncapped.
C19_Witness ==
    /\ IsClosed
    /\ last.called
    /\ last.update.shouldClose
    /\ pos.grossPnl - pos.fees = LastNet
    /\ LastNet < pos.pnl
    /\ pos.pnl = -(25 * USD) - pos.fees


-----------------------------------------------------------------------------
(* checkRiskGate as a function of the history, the balance and the clock *)

\* Four closed trades and one open position, with entry and exit times in
\* minutes; the gate is asked around the ends of the two pauses that these
\* exits can start, and a day later.
Minute == 60000
ClosedSlots == { <<10, 20>>, <<30, 40>>, <<50, 60>>, <<70, 80>> }
GatePnls == { -75 * USD, -10 * USD, 0, 10 * USD }
GateTrades ==
    { [entryTime |-> sl[1] * Minute, status |-> "closed",
       exitTime |-> sl[2] * Minute, pnl |-> p] : sl \in ClosedSlots, p \in GatePnls }
    \cup { [entryTime |-> 90 * Minute, status |-> "open"] }
GateNows == { m * Minute : m \in {100, 119, 120, 139, 140, 1500} }
GateBalances == {1000, 999}

\* The ledger records trades as they come, and hands them over oldest first,
\* newest first or mixed: a new entry goes to either end of the history.
Record(t, atFront) ==
    /\ gate = NoGate
    /\ \A i \in DOMAIN trades : trades[i].entryTime < t.entryTime
    /\ trades' = IF atFront THEN <<t>> \o trades ELSE Append(trades, t)
    /\ now' = IF t.status = "closed" THEN t.exitTime ELSE t.entryTime
    /\ UNCHANGED <<pos, last, gate, loop, reader>>

\* checkRiskGate(recentTrades, currentBalance) at Date.now() = nowMs
Check(nowMs, currentBalance) ==
    /\ nowMs >= now
    /\ now' = nowMs
    /\ gate' = [ called |-> TRUE, balance |-> currentBalance, recentTrades |-> trades,
                 result |-> checkRiskGate(trades, currentBalance, nowMs) ]
    /\ trades' = RecentTradesAfter(trades)
    /\ UNCHANGED <<pos, last, loop, reader>>

GateNext ==
    \/ \E t \in GateTrades, f \in BOOLEAN : Record(t, f)
    \/ \E n \in GateNows, b \in GateBalances : Check(n, b)

GateSpec == Init /\ [][GateNext]_vars

\* The history as the claims describe it: the closed trades, the most recent
\* exit, and the closed trades that form the run of losses at the recent end.
ClosedOnes == { i \in DOMAIN trades : trades[i].status = "closed" }
MostRecentExit ==
    CHOOSE x \in { trades[i].exitTime : i \in ClosedOnes } :
        \A i \in ClosedOnes : trades[i].exitTime <= x
LossRun ==
    { i \in ClosedOnes :
        \A j \in ClosedOnes :
            trades[j].exitTime >= trades[i].exitTime => trades[j].pnl < 0 }
EnteredLastHour == { i \in DOMAIN trades : trades[i].entryTime >= now - 60 * Minute }

PauseHolds ==
    /\ Cardinality(LossRun) >= 3
    /\ now < MostRecentExit + 60 * Minute

GateReason == IF gate.called /\ ~gate.result.allowed THEN gate.result.reason ELSE ""

\* C20: checkRiskGate returns allowed = false whenever, in the closed
\* positions ordered most-recent-exit-first, the leading run of trades with
\* pnl < 0 has length >= maxConsecutiveLosses and
\* now < (exitTime of the most recent one) + pauseAfterLossesMinutes; a most
\* recent trade with pnl >= 0 ends the run; and the pause is the reason of the
\* refusal exactly while it holds (the rate limit, tested first, aside), so
\* that with an unchanged history it stops blocking when now reaches the end
\* of the pause.
C20_ConsecutiveLossPause ==
    gate.called =>
        /\ PauseHolds => ~gate.result.allowed
        /\ GateReason = "Pause" <=> (PauseHolds /\ Cardinality(EnteredLastHour) < 2)
        /\ (ClosedOnes # {} /\ now >= MostRecentExit + 60 * Minute) => GateReason # "Pause"
        /\ (\E i \in ClosedOnes : trades[i].exitTime = MostRecentExit /\ trades[i].pnl >= 0)
              => GateReason # "Pause"

\* One minute before the end of the pause: the three most recent closed
\* trades are losses, an older one is not, the history is in neither order
\* of exit, and the gate refuses with the pause.
C20_Witness ==
    /\ gate.called
    /\ GateReason = "Pause"
    /\ Cardinality(ClosedOnes) = 4
    /\ Cardinality(LossRun) = 3
    /\ now = MostRecentExit + 59 * Minute
    /\ ClosedOnes = DOMAIN trades
    /\ \E i, j \in ClosedOnes : i < j /\ trades[i].exitTime < trades[j].exitTime
    /\ \E i, j \in ClosedOnes : i < j /\ trades[i].exitTime > trades[j].exitTime


-----------------------------------------------------------------------------
(* The four checks of the risk gate, read from the history *)

RateLimited == Cardinality(EnteredLastHour) >= 2

\* The closed trades whose exit lies in the last 24 hours, and their pnl summed.
ClosedLastDay == { i \in ClosedOnes : trades[i].exitTime >= now - 24 * 60 * Minute }

RECURSIVE PnlOver(_)
PnlOver(S) ==
    IF S = {} THEN 0
    ELSE LET i == CHOOSE x \in S : TRUE IN trades[i].pnl + PnlOver(S \ {i})

DayPnl == PnlOver(ClosedLastDay)

DailyLossHolds ==
    \/ DayPnl <= -150 * USD
    \/ DayPnl < 0 /\ (-DayPnl) * 100 >= 10 * (2000 * USD)

BalanceLow == gate.balance < 1000

DailyReasons == {"Daily loss limit", "Daily loss %"}

\* C21: checkRiskGate returns allowed = false whenever the entries of the
\* history, open or closed, whose entryTime lies within the last hour number
\* maxTradesPerHour or more, whatever the balance and the pnl of those
\* entries; the rate limit is the reason given exactly in that case.
C21_RateLimit ==
    gate.called =>
        /\ RateLimited => ~gate.result.allowed
        /\ GateReason = "Rate limit" <=> RateLimited

\* Two entries within the last hour, an open position and a trade closed
\* with a profit, with a sound balance: the gate refuses with the rate limit
\* and no other check would have refused.
C21_Witness ==
    /\ gate.called
    /\ GateReason = "Rate limit"
    /\ Cardinality(EnteredLastHour) = 2
    /\ \E i \in EnteredLastHour : trades[i].status = "open"
    /\ \E i \in EnteredLastHour : trades[i].status = "closed" /\ trades[i].pnl > 0
    /\ ~PauseHolds
    /\ ~DailyLossHolds
    /\ ~BalanceLow

\* C22: with dailyPnl the sum of pnl over the closed positions whose exitTime
\* lies within the last 24 h (open positions and older closes left out),
\* checkRiskGate returns allowed = false whenever
\* dailyPnl <= -maxDailyLossDollars, and whenever dailyPnl < 0 and
\* |dailyPnl| / initialBalance * 100 >= maxDailyLossPercent; a daily-loss
\* reason is given exactly when that holds and neither the rate limit nor the
\* pause, tested before, refused.
C22_DailyLossLimit ==
    gate.called =>
        /\ DailyLossHolds => ~gate.result.allowed
        /\ GateReason \in DailyReasons <=> (DailyLossHolds /\ ~RateLimited /\ ~PauseHolds)

\* A day later: two losses of the last 24 hours add up to exactly the daily
\* limit and the gate refuses, while older closed trades are in the history.
C22_Witness ==
    /\ gate.called
    /\ GateReason = "Daily loss limit"
    /\ DayPnl = -150 * USD
    /\ ClosedLastDay # ClosedOnes
    /\ \E i \in DOMAIN trades : trades[i].status = "open"

\* C23: for every trade history, checkRiskGate returns allowed = false
\* whenever currentBalance < 0.5 * initialBalance; the balance is the reason
\* given exactly when no earlier check refused.
C23_BalanceSanity ==
    gate.called =>
        /\ BalanceLow => ~gate.result.allowed
        /\ GateReason = "Balance too low" <=>
              (BalanceLow /\ ~RateLimited /\ ~PauseHolds /\ ~DailyLossHolds)

\* A history of winning trades only and a balance one dollar below half of
\* the initial balance: the gate refuses.
C23_Witness ==
    /\ gate.called
    /\ GateReason = "Balance too low"
    /\ gate.balance = 999
    /\ Cardinality(ClosedOnes) >= 2
    /\ \A i \in ClosedOnes : trades[i].pnl > 0

\* C24: checkRiskGate returns allowed = true if and only if none of the four
\* conditions (rate limit, consecutive-loss pause, daily loss limit, balance
\* sanity) holds: each of them alone blocks, and so do several together.
C24_GateCompleteness ==
    gate.called =>
        (gate.result.allowed
            <=> ~(RateLimited \/ PauseHolds \/ DailyLossHolds \/ BalanceLow))

\* The gate allows a trade at the very end of a pause: the three most recent
\* closed trades are losses, and now is the exit of the last one plus the
\* pause.
C24_Witness ==
    /\ gate.called
    /\ gate.result.allowed
    /\ Cardinality(LossRun) >= 3
    /\ now = MostRecentExit + 60 * Minute
    /\ gate.balance = 1000


-----------------------------------------------------------------------------
(* The scenario: Long, entry 100, collateral 500, price 100.5 at 400 s *)

ScenarioCall ==
    /\ last.called
    /\ last.position.side = "Long"
    /\ last.position.entryPrice = 1000000
    /\ last.position.collateral = 500
    /\ last.position.leverage = 10
    /\ last.currentPrice = 1005000
    /\ last.elapsed = 400

\* 100.5 * (1 - 0.003)
ScenarioTrail == 1005000 - (1005000 * 3) \div 1000

\* C25 as stated: after the call of the scenario the position has breakeven
\* and trailing active, trailingStopPrice = 100.5 * (1 - 0.003), and is still
\* open.
C25_ScenarioStaysOpen ==
    ScenarioCall =>
        /\ pos.status = "open"
        /\ pos.breakevenStopActive
        /\ pos.trailingStopActive
        /\ pos.trailingStopPrice = ScenarioTrail

\* C25, amended: the call of the scenario returns shouldClose = true at
\* exitPrice 100.5. When trailing was not active before the call, the reason
\* is swing-profit (net P&L $22 >= minProfitTarget after 300 s), or
\* take-profit in mean_reversion mode, and the mutations returned with the
\* close, merged onto the position, give breakevenStopActive = true,
\* trailingStopActive = true and trailingStopPrice = 100.5 * (1 - 0.003);
\* when an earlier peak had already activated trailing, the reason is
\* swing-profit, take-profit or trailing-stop. The position is finalized by
\* closePosition with pnl = $22 and its trailing fields as before the call.
C25_ScenarioCloses ==
    ScenarioCall =>
        LET before == last.position
        IN  /\ last.update.shouldClose
            /\ last.update.exitPrice = 1005000
            /\ last.update.reason \in {"swing-profit", "take-profit", "trailing-stop"}
            /\ ~before.trailingStopActive =>
                  /\ last.update.reason = (IF before.mode = "mean_reversion"
                                           THEN "take-profit" ELSE "swing-profit")
                  /\ LET merged == last.update.mutations @@ before
                     IN  /\ merged.breakevenStopActive
                         /\ merged.trailingStopActive
                         /\ merged.trailingStopPrice = ScenarioTrail
            /\ pos.status = "closed"
            /\ pos.pnl = 22 * USD
            /\ pos.trailingStopActive = before.trailingStopActive
            /\ pos.trailingStopPrice = before.trailingStopPrice

\* The scenario on a position that had not moved before: the call closes it
\* with swing-profit.
C25_Witness ==
    /\ ScenarioCall
    /\ last.position.mode = "swing"
    /\ last.position.peakGrossPnl = 0
    /\ ~last.position.breakevenStopActive
    /\ IsClosed
    /\ pos.reason = "swing-profit"


-----------------------------------------------------------------------------
(* applyMutations *)

\* C26: applyMutations is a pure merge. After a call that did not close, the
\* position equals the returned mutations on every field present in them and
\* the position passed to the call on every other field; when the result
\* carries no mutations the position is the one passed; and applying the
\* same mutations once more gives the same position.
C26_PureMerge ==
    (last.called /\ ~last.update.shouldClose) =>
        LET before == last.position
            m      == MutationsOf(last.update)
        IN  IF m = UndefinedMutations
            THEN /\ pos = before
                 /\ applyMutations(pos, m) = pos
            ELSE /\ DOMAIN pos = DOMAIN before \cup DOMAIN m
                 /\ \A f \in DOMAIN m : pos[f] = m[f]
                 /\ \A f \in DOMAIN before \ DOMAIN m : pos[f] = before[f]
                 /\ applyMutations(pos, m) = pos
                 /\ applyMutations(pos, UndefinedMutations) = pos

\* The merge replaced a value: the position had a trailing stop, the
\* mutations carried a different one, and the position now has the new one
\* while its flags, not in the mutations, are the old ones.
C26_Witness ==
    /\ IsOpen
    /\ last.called
    /\ "mutations" \in DOMAIN last.update
    /\ "trailingStopPrice" \in DOMAIN last.update.mutations
    /\ "trailingStopActive" \notin DOMAIN last.update.mutations
    /\ last.position.trailingStopPrice # Undefined
    /\ last.position.trailingStopPrice # last.update.mutations.trailingStopPrice
    /\ pos.trailingStopPrice = last.update.mutations.trailingStopPrice
    /\ pos.trailingStopActive = last.position.trailingStopActive


-----------------------------------------------------------------------------
(* The core as a set of functions: positions and history are only read *)

\* Either positions are evaluated (a single call after at most one at entry
\* time), or a history is built and the gate is asked.
CoreTrades == { t \in GateTrades : t.status = "open" \/ t.pnl \in {-75 * USD, 10 * USD} }

CoreNext ==
    \/ \E s \in Sides, e \in EntryPrices, m \in Modes :
          trades = <<>> /\ gate = NoGate /\ CallOpen(s, e, 500, m)
    \/ \E p \in LivePrices : WarmUp(p)
    \/ \E t \in CallTimes, p \in LivePrices : Call(t, p, Undefined)
    \/ \E t \in CoreTrades, f \in BOOLEAN : pos = NoPosition /\ Record(t, f)
    \/ \E n \in GateNows : pos = NoPosition /\ Check(n, 1000)

CoreSpec == Init /\ [][CoreNext]_vars

IdentityFields ==
    {"id", "side", "entryPrice", "entryTime", "collateral", "leverage", "mode",
     "stopLoss", "takeProfit", "status"}

\* C27: the core changes nothing in place. The mutations that updatePosition
\* returns, with or without a close, contain only the trailing-state fields
\* peakGrossPnl, peakPrice, breakevenStopActive, trailingStopActive and
\* trailingStopPrice, never id, side, entryPrice, entryTime, collateral,
\* leverage, mode, stopLoss, takeProfit or status; the position that results
\* from the call differs from the one passed only in fields of that delta or
\* in the fields closePosition adds; and the history passed to checkRiskGate
\* is, after the call, the history that was passed, in the same order.
C27_NoInPlaceChange ==
    /\ (last.called /\ "mutations" \in DOMAIN last.update) =>
          /\ DOMAIN last.update.mutations \subseteq TrailingFields
          /\ DOMAIN last.update.mutations \cap IdentityFields = {}
    /\ last.called =>
          \A f \in DOMAIN last.position :
              pos[f] # last.position[f] =>
                  IF last.update.shouldClose
                  THEN f = "status"
                  ELSE f \in DOMAIN last.update.mutations
    /\ gate.called => trades = gate.recentTrades

\* The gate was asked with a history that is not in the order of its sort
\* (an open position first, an older close after a newer one), and the
\* history is as it was.
C27_Witness ==
    /\ gate.called
    /\ Len(trades) >= 3
    /\ trades[1].status = "open"
    /\ \E i, j \in ClosedOnes : i < j /\ trades[i].exitTime < trades[j].exitTime
    /\ trades = gate.recentTrades


-----------------------------------------------------------------------------
(* The scan loop of the trader *)

SCAN_INTERVAL_MS == 30000
LOOP_MAX_LOSS_DOLLARS == 30             \* ABSOLUTE_MAX_LOSS_DOLLARS of the loop
BREAKEVEN_TRIGGER_PERCENT == 4000       \* 0.4 %
risk_positionSizeDollars == 500

OrElse(x, d) == IF x # 0 THEN x ELSE d  \* x || d, for a number

\* trailingStops.get(position.id) of a position the map does not hold
NoTrail == [positionId |-> Undefined]

NewTrailState(position, nowMs) ==
    [ positionId        |-> position.id,
      highWaterMark     |-> 0,
      stopMovedToBreakeven |-> FALSE,
      trailingStopPrice |-> Undefined,
      entryTime         |-> OrElse(position.entryTime, nowMs) ]

TrailClose(reason, currentPrice) ==
    [shouldClose |-> TRUE, reason |-> reason, exitPrice |-> currentPrice]

\* The trailing manager of the loop. It reads the position and writes to the
\* state object it is given: the result is the decision and that object after
\* the call. The reasons are messages with figures; the model keeps the tag.
manageTrailingStop(position, currentPrice, state, atrPercent, nowMs) ==
    LET isLong        == position.side = "Long"
        move          == calcGrossPnl(position, currentPrice)
        priceMovePct  == move.pct
        unrealizedPnl == move.dollars
        holdMs        == nowMs - state.entryTime
        toBreakeven   == /\ ~state.stopMovedToBreakeven
                         /\ priceMovePct >= BREAKEVEN_TRIGGER_PERCENT
        feeBuffer     == (position.entryPrice * 6) \div 10000
        s1 == IF toBreakeven
              THEN [state EXCEPT
                      !.highWaterMark = Max(unrealizedPnl, state.highWaterMark),
                      !.stopMovedToBreakeven = TRUE,
                      !.trailingStopPrice = IF isLong THEN position.entryPrice + feeBuffer
                                                      ELSE position.entryPrice - feeBuffer]
              ELSE [state EXCEPT
                      !.highWaterMark = Max(unrealizedPnl, state.highWaterMark)]
        adaptiveTrailPct == Max(1500, Min(4000, (atrPercent * 4) \div 10))
        trailDistance    == ((currentPrice \div 100) * adaptiveTrailPct) \div PCT
        newTrailingStop  == IF isLong THEN currentPrice - trailDistance
                                      ELSE currentPrice + trailDistance
        s2 == IF /\ s1.stopMovedToBreakeven
                 /\ s1.trailingStopPrice # Undefined
                 /\ \/ isLong /\ newTrailingStop > s1.trailingStopPrice
                    \/ ~isLong /\ newTrailingStop < s1.trailingStopPrice
              THEN [s1 EXCEPT !.trailingStopPrice = newTrailingStop]
              ELSE s1
        stopHit == /\ s2.stopMovedToBreakeven
                   /\ s2.trailingStopPrice # Undefined
                   /\ \/ isLong /\ currentPrice <= s2.trailingStopPrice
                      \/ ~isLong /\ currentPrice >= s2.trailingStopPrice
    IN  IF holdMs >= ABSOLUTE_MAX_HOLD_SECONDS * 1000
            THEN [result |-> TrailClose("HARD LIMIT", currentPrice), state |-> state]
        ELSE IF unrealizedPnl <= -(LOOP_MAX_LOSS_DOLLARS * USD)
            THEN [result |-> TrailClose("LOSS CAP", currentPrice), state |-> state]
        ELSE IF stopHit
            THEN [result |-> TrailClose("TRAILING STOP", currentPrice), state |-> s2]
        ELSE IF holdMs > 1200 * 1000 /\ priceMovePct > 5000
            THEN [result |-> TrailClose("TIME PROFIT", currentPrice), state |-> s2]
        ELSE IF holdMs > 2400 * 1000 /\ priceMovePct > 1500
            THEN [result |-> TrailClose("LATE PROFIT", currentPrice), state |-> s2]
        ELSE IF holdMs > 900 * 1000 /\ unrealizedPnl < -(8 * USD)
            THEN [result |-> TrailClose("UNDERWATER CUT", currentPrice), state |-> s2]
        ELSE [result |-> [shouldClose |-> FALSE, reason |-> "", exitPrice |-> currentPrice],
              state |-> s2]

\* The position the entry logic hands to the ledger: createPosition, then the
\* stop and the target replaced by levels from the ATR.
EntryPosition(finalSide, currentPrice, mode, atrPercent, nowMs) ==
    LET position      == createPosition(finalSide, currentPrice,
                                        risk_positionSizeDollars, mode, nowMs)
        stopPercent   == IF mode = "bounce" THEN Min(4000, (atrPercent * 5) \div 10)
                                            ELSE Min(5000, (atrPercent * 6) \div 10)
        targetPercent == IF mode = "bounce" THEN Min(15000, (atrPercent * 15) \div 10)
                         ELSE IF finalSide = "Long"
                              THEN Min(25000, (atrPercent * 25) \div 10)
                              ELSE Min(20000, atrPercent * 2)
        stopDist      == (currentPrice \div (100 * PCT)) * stopPercent
        targetDist    == (currentPrice \div (100 * PCT)) * targetPercent
    IN  [position EXCEPT
           !.stopLoss   = IF finalSide = "Long" THEN currentPrice - stopDist
                                                ELSE currentPrice + stopDist,
           !.takeProfit = IF finalSide = "Long" THEN currentPrice + targetDist
                                                ELSE currentPrice - targetDist]

MaxScans == 3                           \* scans started in one run of the model
LoopModes == {"momentum", "bounce"}
LoopAtrs == {5000}                      \* 0.5 %, also the fallback without analysis
LoopMoves == {-41000, -3500, 0, 2000, 4500, 8000}
LoopPrices == { 1000000 + m : m \in LoopMoves }
NoCandles == 0                          \* fetchCandles returned an empty list
StartDelays == {0, 870000, 1200000, 2400000}
TradingModes == {"paper", "live"}

\* The ledger that main pulls holds a position that the entry logic of an
\* earlier run opened.
Load(side, entryPrice, mode, atrPercent) ==
    /\ loop = NoLoop
    /\ pos = NoPosition
    /\ trades = <<>>
    /\ gate = NoGate
    /\ now' = now + SCAN_INTERVAL_MS
    /\ pos' = EntryPosition(side, entryPrice, mode, atrPercent, now')
    /\ UNCHANGED <<last, trades, gate, loop, reader>>

\* main: d ms after the position was opened the loop starts, with its first
\* scan, which suspends on its first awaited request. In live mode the
\* position of the ledger is also held on the exchange (exchange counts the
\* position held there: 1 the position, 0 flat, -1 its reverse).
Main(d, tradingMode) ==
    /\ loop = NoLoop
    /\ pos # NoPosition
    /\ now' = now + d
    /\ loop' = [ started |-> TRUE, timer |-> FALSE, scanCount |-> 1,
                 scans |-> { [id |-> 1, at |-> "candles"] },
                 trailingStops |-> NoTrail,
                 tradingMode |-> tradingMode,
                 exchange |-> IF tradingMode = "live" THEN 1 ELSE 0 ]
    /\ UNCHANGED <<pos, last, trades, gate, reader>>

\* setInterval(runScan, SCAN_INTERVAL_MS): the timer calls runScan, whatever
\* the earlier scans are doing.
Interval ==
    /\ loop # NoLoop
    /\ loop.timer
    /\ loop.scanCount < MaxScans
    /\ now' = now + SCAN_INTERVAL_MS
    /\ loop' = [loop EXCEPT
                  !.scanCount = loop.scanCount + 1,
                  !.scans = loop.scans \cup { [id |-> loop.scanCount + 1, at |-> "candles"] }]
    /\ UNCHANGED <<pos, last, trades, gate, reader>>

\* A scan returns; main, which awaits the first scan, then sets the timer.
Returned(l, scan) ==
    [l EXCEPT !.scans = l.scans \ {scan},
              !.timer = l.timer \/ scan.id = 1]

\* The candles a scan awaited arrive. Without candles the scan returns. With
\* an open position in the ledger the scan evaluates it with both managers
\* and, when one of them says close, suspends on the close order of the
\* exchange in live mode and on the close of the ledger in paper mode; else
\* it returns (no signal is found by the entry logic in this model).
Candles(scan, currentPrice, atrPercent) ==
    /\ loop # NoLoop
    /\ scan \in loop.scans
    /\ scan.at = "candles"
    /\ IF currentPrice = NoCandles \/ pos.status # "open"
       THEN /\ loop' = Returned(loop, scan)
            /\ UNCHANGED <<now, pos, last, trades, gate, reader>>
       ELSE LET position   == pos
                trailState == IF loop.trailingStops = NoTrail
                              THEN NewTrailState(position, now)
                              ELSE loop.trailingStops
                trail      == manageTrailingStop(position, currentPrice, trailState,
                                                 atrPercent, now)
                recoveryResult == updatePosition(position, currentPrice,
                                                 ABSOLUTE_MAX_HOLD_SECONDS, now)
                shouldClose == trail.result.shouldClose \/ recoveryResult.shouldClose
                closeReason == IF trail.result.shouldClose THEN trail.result.reason
                               ELSE recoveryResult.reason
                exitPrice   == IF trail.result.shouldClose THEN trail.result.exitPrice
                               ELSE recoveryResult.exitPrice
                managed     == [loop EXCEPT !.trailingStops = trail.state]
            IN  /\ last' = [ called |-> TRUE, position |-> position,
                             currentPrice |-> currentPrice,
                             overrideMaxSeconds |-> ABSOLUTE_MAX_HOLD_SECONDS,
                             elapsed |-> Elapsed(position, now),
                             update |-> recoveryResult ]
                /\ loop' = IF shouldClose
                           THEN [managed EXCEPT !.scans = (managed.scans \ {scan}) \cup
                                   { [ id |-> scan.id,
                                       at |-> IF loop.tradingMode = "live"
                                              THEN "order" ELSE "close",
                                       positionId |-> position.id,
                                       exitPrice |-> exitPrice,
                                       closeReason |-> closeReason ] }]
                           ELSE Returned(managed, scan)
                /\ UNCHANGED <<now, pos, trades, gate, reader>>

\* Live mode: the close order a scan awaited is answered. A market order on
\* the closing side is filled, or the request throws; the error is logged and
\* the scan goes on to the close of the ledger in either case.
Ordered(scan, filled) ==
    /\ loop # NoLoop
    /\ scan \in loop.scans
    /\ scan.at = "order"
    /\ loop' = [loop EXCEPT
                  !.exchange = IF filled THEN loop.exchange - 1 ELSE loop.exchange,
                  !.scans = (loop.scans \ {scan}) \cup {[scan EXCEPT !.at = "close"]}]
    /\ UNCHANGED <<now, pos, last, trades, gate, reader>>

\* The close of the ledger a scan awaited is answered: the ledger has closed
\* the position, if it still held it as open, or the call throws and the
\* error is logged; the scan drops the trailing state and returns.
Closed(scan, done) ==
    /\ loop # NoLoop
    /\ scan \in loop.scans
    /\ scan.at = "close"
    /\ pos' = IF done /\ pos.status = "open" /\ pos.id = scan.positionId
              THEN closePosition(pos, scan.exitPrice, scan.closeReason, now)
              ELSE pos
    /\ loop' = Returned([loop EXCEPT !.trailingStops = NoTrail], scan)
    /\ UNCHANGED <<now, last, trades, gate, reader>>

ScanNext ==
    \/ \E s \in Sides, e \in EntryPrices, m \in LoopModes, a \in LoopAtrs : Load(s, e, m, a)
    \/ \E d \in StartDelays, t \in TradingModes : Main(d, t)
    \/ Interval
    \/ \E scan \in (IF loop = NoLoop THEN {} ELSE loop.scans),
          p \in LoopPrices \cup {NoCandles}, a \in LoopAtrs : Candles(scan, p, a)
    \/ \E scan \in (IF loop = NoLoop THEN {} ELSE loop.scans), filled \in BOOLEAN :
          Ordered(scan, filled)
    \/ \E scan \in (IF loop = NoLoop THEN {} ELSE loop.scans), done \in BOOLEAN :
          Closed(scan, done)

ScanSpec == Init /\ [][ScanNext]_vars

\* C28: scan ticks never overlap, at most one scan is in progress at any
\* time: the scheduler starts no scan while an earlier one is suspended on
\* awaited I/O.
C28_ScansNeverOverlap ==
    loop # NoLoop => Cardinality(loop.scans) <= 1

\* C31: in live mode the ledger and the exchange agree after every scan, also
\* after a scan in which a call threw: when no scan is in progress the
\* position is open in the ledger exactly when it is held on the exchange,
\* and nothing else is held there.
C31_LedgerMatchesExchange ==
    (loop # NoLoop /\ loop.tradingMode = "live" /\ loop.scans = {}) =>
        /\ loop.exchange \in {0, 1}
        /\ IsOpen <=> loop.exchange = 1

\* C29: the caller persists the deltas of the pipeline: when updatePosition
\* returned mutations without a close at one tick, the position that the scan
\* passes to updatePosition at the next tick is the earlier one with these
\* mutations applied.
C29_DeltasPersisted ==
    [][ ( /\ last.called
          /\ ~last.update.shouldClose
          /\ last'.called
          /\ last' # last )
        => last'.position = applyMutations(last.position, MutationsOf(last.update)) ]_vars


-----------------------------------------------------------------------------
(* Time-scaled exits and losses *)

BreakerReasons == {"CIRCUIT-BREAKER-TIME", "CIRCUIT-BREAKER-LOSS"}

\* C30: time-scaled exits never exit at a loss: a close decided by rule 7
\* (swing-profit, generous-exit, capital-free, time-decay-exit) has a net P&L
\* of at least zero, and a position is closed at a net loss only by a stop or
\* by a circuit breaker.
C30_TimeScaledExitsNeverLose ==
    /\ (last.called /\ LastReason \in TierReasons) => LastNet >= 0
    /\ (last.called /\ IsClosed /\ pos.pnl < 0) =>
          LastReason \in StopReasons \cup BreakerReasons


-----------------------------------------------------------------------------
(* Brief reader v2 *)

\* Thresholds and distances are in 1/100 of a percent, the confidence in
\* percent, the order book imbalance in 1/100, the 24 h change in 1/10 of a
\* percent; an optional number that is absent is 0, as for the || of the source.
REFRESH_MS == 5 * 60 * 1000
strategy_momentumThreshold == 12        \* 0.12 %
Max3(a, b, c) == Max(a, Max(b, c))

Blocks(reason) == [tradingEnabled |-> FALSE, reason |-> reason]

\* fetchBrief is called when there is no cached brief or the cache is older
\* than REFRESH_MS
Refetches(r, nowMs) == r.cachedBrief = Null \/ nowMs - r.lastFetch > REFRESH_MS

\* The fetch at the head of getOverrides: fresh is what fetchBrief returned
\* (Null when the request failed).
AfterFetch(r, nowMs, fresh) ==
    IF ~Refetches(r, nowMs) \/ fresh = Null
    THEN r
    ELSE [r EXCEPT
            !.regimeStableSince = IF fresh.regime # r.lastRegime
                                  THEN (IF r.lastRegime = "" THEN fresh.timestamp
                                                             ELSE nowMs)
                                  ELSE @,
            !.lastRegime = fresh.regime,
            !.cachedBrief = fresh,
            !.lastFetch = nowMs]

\* regime high_vol_chop
ChopOverrides(brief, regimeStableSince, nowMs) ==
    IF brief.change24h > 20
        THEN Blocks("chop-correction")
    ELSE IF brief.riskEventCount >= 6
        THEN Blocks("chop-risk-events")
    ELSE [ tradingEnabled    |-> TRUE,
           reason            |-> "HIGH_VOL_CHOP",
           preferredSide     |-> "null",
           momentumThreshold |->
               LET base == Max3(25, OrElse(brief.momentumThreshold, 10),
                                strategy_momentumThreshold)
               IN  IF brief.riskEventCount >= 4 THEN Max(OrElse(base, 10), 15) ELSE base,
           maxTradeSeconds   |-> 90,
           quickExitSeconds  |-> 20,
           quickGrabDollars  |-> 5,
           maxChasePercent   |-> 15,
           minProfitDollars  |-> 6 ]

\* regime trending_bullish or trending_bearish
TrendOverrides(brief, regimeStableSince, nowMs) ==
    LET regime  == brief.regime
        bullish == regime = "trending_bullish"
        c       == brief.candles1m
        against == /\ c # Null
                   /\ c.count >= 8
                   /\ \/ bullish /\ c.bearish * 100 > 65 * c.count
                      \/ ~bullish /\ c.bullish * 100 > 65 * c.count
        obAgainst == \/ bullish /\ brief.obBias = "ask_heavy"
                     \/ ~bullish /\ brief.obBias = "bid_heavy"
        t0 == IF brief.momentumThreshold # 0
              THEN Max(brief.momentumThreshold, strategy_momentumThreshold) ELSE 0
        t1 == IF brief.obImbalance > 40 /\ obAgainst
              THEN Max(OrElse(t0, strategy_momentumThreshold), 18) ELSE t0
        s0 == brief.maxTradeSeconds
    IN  IF brief.regimeConfidence < 70
            THEN Blocks("low-confidence")
        ELSE IF brief.priceVsEma20 < 15
            THEN Blocks("weak-trend")
        ELSE IF nowMs - regimeStableSince < 15 * 60000
            THEN Blocks("regime-unstable")
        ELSE IF against
            THEN Blocks("candles-against")
        ELSE IF brief.obImbalance > 55 /\ obAgainst
            THEN Blocks("orderbook-against")
        ELSE IF brief.riskEventCount >= 6
            THEN Blocks("risk-events")
        ELSE [ tradingEnabled    |-> TRUE,
               reason            |-> regime,
               preferredSide     |-> IF bullish THEN "Long" ELSE "Short",
               momentumThreshold |-> IF brief.riskEventCount >= 4
                                     THEN Max(OrElse(t1, 12), 18) ELSE t1,
               maxTradeSeconds   |-> IF brief.riskEventCount >= 4
                                     THEN Min(OrElse(s0, 180), 150) ELSE s0,
               quickExitSeconds  |-> 0,
               quickGrabDollars  |-> 0,
               maxChasePercent   |-> 35,
               minProfitDollars  |-> 8 ]

\* getOverrides: the module-level variables after the call and what it returns
getOverrides(r, nowMs, fresh) ==
    LET after == AfterFetch(r, nowMs, fresh)
        brief == after.cachedBrief
        result ==
            IF brief = Null
                THEN Blocks("no-brief")
            ELSE IF nowMs - brief.timestamp > 20 * 60 * 1000
                THEN Blocks("stale")
            ELSE IF ~brief.active
                THEN Blocks("inactive")
            ELSE IF brief.regime = "high_vol_chop"
                THEN ChopOverrides(brief, after.regimeStableSince, nowMs)
            ELSE IF brief.regime \in {"ranging", "low_vol_squeeze"}
                THEN Blocks("no-edge")
            ELSE IF brief.regime \in {"trending_bullish", "trending_bearish"}
                THEN TrendOverrides(brief, after.regimeStableSince, nowMs)
            ELSE Blocks("unknown-regime")
    IN  [ at |-> nowMs, result |-> result,
          fresh |-> IF Refetches(r, nowMs) THEN fresh ELSE Null ]
        @@ [after EXCEPT !.called = TRUE]

ReaderSteps == {3 * 60000, 6 * 60000}
MaxReaderNow == 36 * 60000
BriefAges == {0, 9 * 60000, 21 * 60000}
Regimes == {"high_vol_chop", "ranging", "trending_bullish", "trending_bearish", "crash"}

BaseBrief ==
    [ timestamp |-> 0, regime |-> "ranging", regimeConfidence |-> 85, active |-> TRUE,
      momentumThreshold |-> 0, maxTradeSeconds |-> 0, priceVsEma20 |-> 20,
      change24h |-> 0, riskEventCount |-> 0, candles1m |-> Null,
      obBias |-> "neutral", obImbalance |-> 0 ]

\* the readings that the branch of a regime looks at, one changed at a time
ChopShapes ==
    { BaseBrief,
      [BaseBrief EXCEPT !.active = FALSE],
      [BaseBrief EXCEPT !.change24h = 30],
      [BaseBrief EXCEPT !.riskEventCount = 4],
      [BaseBrief EXCEPT !.riskEventCount = 6],
      [BaseBrief EXCEPT !.momentumThreshold = 30, !.maxTradeSeconds = 240] }

TrendShapes ==
    ChopShapes \cup
    { [BaseBrief EXCEPT !.regimeConfidence = 65],
      [BaseBrief EXCEPT !.priceVsEma20 = 10],
      [BaseBrief EXCEPT !.candles1m = [count |-> 8, bearish |-> 6, bullish |-> 2]],
      [BaseBrief EXCEPT !.obBias = "ask_heavy", !.obImbalance = 45],
      [BaseBrief EXCEPT !.obBias = "ask_heavy", !.obImbalance = 60] }

BriefShapes ==
    { [b EXCEPT !.regime = "high_vol_chop"] : b \in ChopShapes }
    \cup { [b EXCEPT !.regime = "trending_bullish"] : b \in TrendShapes }
    \cup { [BaseBrief EXCEPT !.regime = g] : g \in Regimes }

Briefs(nowMs) ==
    { [b EXCEPT !.timestamp = nowMs - a] :
        b \in BriefShapes, a \in { x \in BriefAges : x <= nowMs } }

\* The scan asks for the overrides, d ms after the call before.
GetOverrides(d, fresh) ==
    /\ now + d <= MaxReaderNow
    /\ now' = now + d
    /\ reader' = getOverrides(reader, now', fresh)
    /\ UNCHANGED <<pos, last, trades, gate, loop>>

ReaderNext ==
    \E d \in ReaderSteps :
        \E fresh \in (IF Refetches(reader, now + d) THEN Briefs(now + d) ELSE {}) \cup {Null} :
            GetOverrides(d, fresh)

ReaderSpec == Init /\ [][ReaderNext]_vars

\* C32: getOverrides enables trading only on a regime that has been stable
\* for 15 minutes: whenever it returns tradingEnabled = true, the stability
\* clock of the regime of the cached brief is at least 15 minutes old; and the
\* clock regimeStableSince is set only by a call in which a brief was fetched
\* whose regime differs from the one before.
C32_RegimeHysteresis ==
    /\ [](reader.called /\ reader.result.tradingEnabled
            => reader.at - reader.regimeStableSince >= 15 * 60000)
    /\ [][ reader'.regimeStableSince # reader.regimeStableSince
            => /\ reader'.fresh # Null
               /\ reader'.fresh.regime # reader.lastRegime ]_vars


-----------------------------------------------------------------------------
(* Order of the protections *)

\* C33: in every state reached from createPosition by applying the mutations
\* of updatePosition, a position with trailingStopActive has
\* breakevenStopActive and a defined trailingStopPrice; a call that activates
\* trailing does so on a position whose breakeven stop is active already or
\* is activated by the same call.
C33_TrailingImpliesBreakeven ==
    /\ (HasPosition /\ pos.trailingStopActive) =>
          /\ pos.breakevenStopActive
          /\ pos.trailingStopPrice # Undefined
    /\ (last.called /\ "mutations" \in DOMAIN last.update
          /\ "trailingStopActive" \in DOMAIN last.update.mutations) =>
          \/ last.position.breakevenStopActive
          \/ /\ "breakevenStopActive" \in DOMAIN last.update.mutations
             /\ last.update.mutations.breakevenStopActive

\* Both protections were activated by one call, which left the position open.
C33_Witness ==
    /\ IsOpen
    /\ last.called
    /\ ~last.position.breakevenStopActive
    /\ ~last.position.trailingStopActive
    /\ pos.trailingStopActive
    /\ pos.breakevenStopActive
    /\ pos.trailingStopPrice = calcTrailingStopPrice(pos.side, pos.peakPrice)


-----------------------------------------------------------------------------
(* The tick at 45 minutes *)

RepositoryNotional == risk_positionSizeDollars * futures_leverage

OfRepositorySize(position) ==
    position.collateral * position.leverage = RepositoryNotional

-----------------------------------------------------------------------------
(* The loss breaker and the static stop *)

\* createPosition limited the stop of the position by the dollar cap: the
\* percentage of the cap is below the one configured for the mode.
CapLimited(position) ==
    (ABSOLUTE_MAX_LOSS_DOLLARS * 100 * PCT) \div (position.collateral * position.leverage)
        < ConfiguredStopPct(position.mode)

\* C35: the loss breaker pre-empts a cap-limited static stop: for a position
\* whose stop percentage was limited by the dollar cap and whose trailing stop
\* price is not set, every price at or beyond stopLoss has a net P&L of at
\* most -ABSOLUTE_MAX_LOSS_DOLLARS, and updatePosition returns a circuit
\* breaker for it, never the reason stop-loss.
C35_BreakerBeforeCappedStop ==
    (last.called /\ CapLimited(last.position)
       /\ last.position.trailingStopPrice = Undefined) =>
        /\ LastReason # "stop-loss"
        /\ StopCrossed(last.position, last.currentPrice) =>
              /\ LastNet <= -(ABSOLUTE_MAX_LOSS_DOLLARS * USD)
              /\ LastReason \in BreakerReasons

\* A cap-limited position is evaluated at the very price of its static stop,
\* before the hour, and the loss breaker closes it.
C35_Witness ==
    /\ IsClosed
    /\ last.called
    /\ CapLimited(last.position)
    /\ last.position.trailingStopPrice = Undefined
    /\ last.currentPrice = last.position.stopLoss
    /\ last.elapsed < ABSOLUTE_MAX_HOLD_SECONDS
    /\ LastReason = "CIRCUIT-BREAKER-LOSS"


-----------------------------------------------------------------------------
(* Re-evaluation *)

\* updatePosition once more on the position the caller holds, with the price
\* and the override of the last call, at the same time
Again == updatePosition(pos, last.currentPrice, last.overrideMaxSeconds, now)

\* C36: re-evaluation is a fixpoint: when updatePosition returned no close for
\* an open position, a second call on the position with the mutations
\* applied, at the same price and the same time, returns no close and no
\* mutations; a stop set or ratcheted by a call is not crossed by the price
\* that produced it.
C36_ReevaluationIsFixpoint ==
    (IsOpen /\ last.called /\ ~last.update.shouldClose) =>
        /\ ~Again.shouldClose
        /\ "mutations" \notin DOMAIN Again
        /\ ~StopCrossed(pos, last.currentPrice)

\* The call set or moved the stop of the position, which stays open.
C36_Witness ==
    /\ IsOpen
    /\ last.called
    /\ "mutations" \in DOMAIN last.update
    /\ "trailingStopPrice" \in DOMAIN last.update.mutations
    /\ pos.trailingStopPrice # last.position.trailingStopPrice
    /\ last.position.trailingStopPrice # Undefined
    /\ ~Again.shouldClose


-----------------------------------------------------------------------------
(* When protection can start *)

\* the mutations of the last call set a protection flag
ActivatesProtection ==
    /\ "mutations" \in DOMAIN last.update
    /\ \E f \in {"breakevenStopActive", "trailingStopActive"} :
          f \in DOMAIN last.update.mutations /\ last.update.mutations[f]

\* C37: for a position of the repository's size, trailing protection starts
\* only in the first five minutes: a call that newly activates breakeven or
\* trailing and leaves the position open has elapsed < 300 s, and from 300 s
\* on every call whose gross move reaches BREAKEVEN_ACTIVATION_PCT closes the
\* position, by swing-profit or by an earlier rule.
C37_ProtectionStartsEarly ==
    (last.called /\ OfRepositorySize(last.position)) =>
        /\ (ActivatesProtection /\ ~last.update.shouldClose) =>
              last.elapsed < SWING_PROFIT_SCALE_SECONDS
        /\ (last.elapsed >= SWING_PROFIT_SCALE_SECONDS
              /\ LastGross.pct >= BREAKEVEN_ACTIVATION_PCT) =>
              /\ last.update.shouldClose
              /\ LastReason \in BreakerReasons \cup StopReasons
                                \cup {"max-profit", "take-profit", "swing-profit"}

\* One second before the five minutes a first move of 0.35 % activates
\* breakeven and the position stays open.
C37_Witness ==
    /\ IsOpen
    /\ last.called
    /\ OfRepositorySize(last.position)
    /\ last.elapsed = SWING_PROFIT_SCALE_SECONDS - 1
    /\ ~last.position.breakevenStopActive
    /\ LastGross.pct = BREAKEVEN_ACTIVATION_PCT
    /\ ActivatesProtection
    /\ pos.breakevenStopActive


-----------------------------------------------------------------------------
(* The gate in front of the factory *)

\* A caller that follows the protocol of the gate: it holds at most one open
\* position, asks checkRiskGate with its full history before it opens one,
\* opens it at the time of the check when allowed, and finalizes every
\* position by closePosition. trades is the history of the closed positions,
\* pos the open one.
GatedOpen ==
    /\ loop = NoLoop
    /\ reader = NoReader
    /\ now > 0                      \* Date.now() is never the epoch
    /\ pos.status # "open"
    /\ LET result == checkRiskGate(trades, risk_initialBalance, now)
       IN  /\ gate' = [ called |-> TRUE, balance |-> risk_initialBalance,
                        recentTrades |-> trades, result |-> result ]
           /\ pos' = IF result.allowed
                     THEN createPosition("Long", 1000000, risk_positionSizeDollars,
                                         "swing", now)
                     ELSE pos
    /\ last' = NoCall
    /\ UNCHANGED <<now, trades, loop, reader>>

GatedClose(exitPrice) ==
    /\ gate # NoGate
    /\ pos.status = "open"
    /\ pos' = closePosition(pos, exitPrice, "manual", now)
    /\ trades' = Append(trades, pos')
    /\ UNCHANGED <<now, last, gate, loop, reader>>

Passes(d, until) ==
    /\ now + d <= until
    /\ now' = now + d
    /\ UNCHANGED <<pos, last, trades, gate, loop, reader>>

WinPrice == 1000000 + 41000
LossPrice == 1000000 - 41000

\* Over a few hours, in steps of 20 minutes, with winning and losing trades.
HourStep == 20 * Minute
MaxHourNow == 140 * Minute

HourNext ==
    \/ GatedOpen
    \/ \E p \in {WinPrice, LossPrice} : GatedClose(p)
    \/ Passes(HourStep, MaxHourNow)

HourSpec == Init /\ [][HourNext]_vars

\* every position the caller ever opened
Positions == IF IsOpen THEN Append(trades, pos) ELSE trades

\* C38: with every position created at the time of a check that allowed it,
\* every window of one hour, both ends included, holds the entry times of at
\* most maxTradesPerHour positions.
C38_RateLimitInvariant ==
    \A i \in DOMAIN Positions :
        Cardinality({ j \in DOMAIN Positions :
                        /\ Positions[j].entryTime >= Positions[i].entryTime
                        /\ Positions[j].entryTime <= Positions[i].entryTime + 3600000 })
            <= risk_maxTradesPerHour

\* Two positions were opened at the same moment and a third one as soon as
\* the hourly window no longer held them.
C38_Witness ==
    /\ Len(Positions) >= 3
    /\ \E i \in DOMAIN Positions :
          /\ i + 2 \in DOMAIN Positions
          /\ Positions[i].entryTime = Positions[i + 1].entryTime
          /\ Positions[i + 2].entryTime = Positions[i].entryTime + 3600000 + HourStep


\* Over more than a day, in steps of four hours. No position is held from one
\* step to the next: the position manager closes every position within
\* ABSOLUTE_MAX_HOLD_SECONDS.
DayStep == 4 * 60 * Minute
MaxDayNow == 8 * DayStep
MaxDayTrades == 8
MaxWins == 2

Wins == Cardinality({ i \in ClosedOnes : trades[i].pnl > 0 })

DayNext ==
    \/ Len(trades) < MaxDayTrades /\ GatedOpen
    \/ Wins < MaxWins /\ GatedClose(WinPrice)
    \/ GatedClose(LossPrice)
    \/ ~IsOpen /\ Passes(DayStep, MaxDayNow)

DaySpec == Init /\ [][DayNext]_vars

\* what a position of the repository's size can lose at most, fees included
WorstClose ==
    ABSOLUTE_MAX_LOSS_DOLLARS * USD
        + calcFees(RepositoryNotional)

\* C39 as stated: with every position opened after an allowing check, one
\* position at a time and every position finalized by closePosition, the pnl
\* of the positions closed within the trailing 24 hours sums to more than
\* -(maxDailyLossDollars + ABSOLUTE_MAX_LOSS_DOLLARS + fees) at every moment,
\* also when earlier winning trades drop out of the window.
C39_DailyLossInvariant ==
    DayPnl > -(risk_maxDailyLossDollars * USD + WorstClose)

\* the time of the most recent check that allowed a position
LastEntry == Positions[Len(Positions)].entryTime

\* a winning trade that was in the window at the most recent allowing check
\* and is no longer in it
WinnerDroppedOut ==
    \E i \in ClosedOnes :
        /\ trades[i].pnl > 0
        /\ trades[i].exitTime >= LastEntry - 24 * 60 * Minute
        /\ trades[i].exitTime < now - 24 * 60 * Minute

\* C39, amended: the bound holds at every moment at which no winning trade
\* has dropped out of the 24-hour window since the most recent check that
\* allowed a position.
C39_DailyLossWhileWinnersStay ==
    (Positions # <<>> /\ ~WinnerDroppedOut) => C39_DailyLossInvariant

\* The day's sum is below the limit of the gate, after a position that was
\* allowed on a sum just above it closed at its worst; the window has moved
\* on, and the trade that dropped out of it was a losing one.
C39_Witness ==
    /\ ~IsOpen
    /\ trades # <<>>
    /\ ~WinnerDroppedOut
    /\ DayPnl <= -(risk_maxDailyLossDollars * USD)
    /\ trades[Len(trades)].pnl = -WorstClose
    /\ trades[Len(trades)].exitTime = now
    /\ \E i \in ClosedOnes : trades[i].exitTime < now - 24 * 60 * Minute

=============================================================================
